---- MODULE Spec2Model ----
(***************************************************************************)
(* Model of the cluster core: the replicated store (the Raft FSM of        *)
(* package store), and the coordinator methods of package cluster that     *)
(* submit commands to it.                                                  *)
(***************************************************************************)
EXTENDS Integers, Sequences, FiniteSets, TLC

VARIABLES
    fsm,      \* fsm[n]: the store of node n (Process, Users, Policies)
    clock,    \* clock[n]: the latest value time.Now() returned on node n
    log,      \* the committed Raft log: the sequence of command entries
    applied,  \* applied[n]: how many entries of log node n has applied
    last,     \* observation of the latest store.Apply: entry, result, state before
    live,     \* the (id,domain) keys added (or renamed to) and not removed since
    run,      \* the current run of setProcessMetadata entries on one process
    snap,     \* the latest snapshot taken on the leader: its blob and log index
    isRaftLeader,  \* cluster.isRaftLeader of node 1
    isDegraded,    \* what cluster.IsDegraded() returns on node 1
    call,     \* the latest call of a coordinator method on node 1 and its result
    fwdAddress,  \* forwarder.client.Address of node 1, an API address
    announced,   \* the API addresses of the leaders announced by leader observations
    dispatch,    \* the latest request the forwarder dispatched and its address
    hasRaftLeader,  \* cluster.hasRaftLeader of node 1
    obsCh,       \* the leader observations Raft has sent and node 1 has not read
    raftConfig,  \* the Raft configuration: its servers, each an id and an address
    leave,       \* the latest call of cluster.Leave on node 1 and where it stands
    join,        \* the latest call of cluster.Join on node 1 and what it did
    wallClock,   \* the wall clock of node 1, in seconds
    sentinel,    \* the locals of cluster.sentinel and what its latest tick did
    raftEmergencyNotifyCh,  \* the signals the sentinel has sent, oldest first
    nodes,       \* cluster.nodes of node 1: the ids of the registered peers
    fileid,      \* cluster.fileid: from a file name to a node id
    idfiles,     \* cluster.idfiles: from a node id to a list of files
    idupdate,    \* cluster.idupdate: from a node id to the time of its last update
    processed,   \* the node state the consumer of cluster.updates processed last
    lookup,      \* the latest call of GetURL or GetFile and what it returned
    srtLock,     \* server.lock of the SRT server: the subscriber that holds it
    proxy,       \* server.proxy[resource] for one resource: a proxy or none
    proxies,     \* the proxy structs created so far and their upstreams
    subscriber,  \* subscriber[s]: where handleSubscribe stands for connection s
    publish,     \* server.channels[resource] and where handlePublish stands
    peer,        \* node.resources of one peer and where its metrics ticker stands
    shutdown,    \* cluster.Shutdown: the shutdown flag and what the calls did
    iam,         \* the identity manager: its identities, subjects and tenants
    limiter,     \* the limiter of a process: its fields, its throttling loops
    runtime      \* a peer's node: its locks, its state and its goroutines

storeVars == <<fsm, clock, last, live, run>>

raftVars == <<log, applied>>

coordVars == <<isRaftLeader, isDegraded, call>>

\* the parts of the node modelled last; every action that does not concern
\* them leaves them alone through baseVars or restVars
lastVars == <<limiter, runtime>>

laterVars == <<publish, peer, shutdown, iam, lastVars>>

\* the store, the log and the coordinator's mutation methods
baseVars == <<storeVars, raftVars, snap, coordVars, laterVars>>

fwdVars == <<fwdAddress, announced, dispatch, hasRaftLeader>>

memberVars == <<obsCh, raftConfig, leave, join>>

sentinelVars == <<wallClock, sentinel, raftEmergencyNotifyCh>>

indexVars == <<nodes, fileid, idfiles, idupdate, processed, lookup>>

proxyVars == <<srtLock, proxy, proxies, subscriber>>

\* the sentinel, the file index and the SRT server
restVars == <<sentinelVars, indexVars, proxyVars, laterVars>>

\* what the parts modelled last leave alone, the SRT server apart
coreVars == <<storeVars, raftVars, snap, coordVars, fwdVars, memberVars,
              sentinelVars, indexVars>>

\* the cluster around the store
clusterVars == <<fwdVars, memberVars, restVars>>

vars == <<fsm, clock, log, applied, last, live, run, snap,
          isRaftLeader, isDegraded, call, clusterVars>>

----------------------------------------------------------------------------
(* Bounds of the model *)

\* time.Now() returns values in 1..MaxTime; 0 is the zero time.Time
MaxTime == 2

\* the Raft log holds at most MaxLog entries
MaxLog == 3

\* at most MaxLoops goroutines of limiter.limit are started
MaxLoops == 2

\* the latest time of the clock of a peer node
MaxContact == 2

\* the nodes that run a store
Nodes == {1, 2}

----------------------------------------------------------------------------
(* Maps (Go map[K]V) as functions with a finite domain *)

EmptyMap == [k \in {} |-> 0]

Put(m, k, v) == [x \in (DOMAIN m) \cup {k} |-> IF x = k THEN v ELSE m[x]]

Del(m, k) == [x \in (DOMAIN m) \ {k} |-> m[x]]

----------------------------------------------------------------------------
(* Values of package store *)

\* StoreError kinds (the formatted messages of NewStoreError)
ErrNil == "nil"
ErrAlreadyExists == "already exists"
ErrNotFound == "doesn't exist"
ErrInvalidEntry == "invalid log entry"

OpAddProcess == "addProcess"
OpRemoveProcess == "removeProcess"
OpUpdateProcess == "updateProcess"
OpSetProcessMetadata == "setProcessMetadata"
OpAddIdentity == "addIdentity"
OpUpdateIdentity == "updateIdentity"
OpRemoveIdentity == "removeIdentity"
OpSetPolicies == "setPolicies"

\* a map[string]interface{} that may be nil
NilMetadata == [isnil |-> TRUE, kv |-> EmptyMap]

EmptyMetadata == [isnil |-> FALSE, kv |-> EmptyMap]

\* interface{} nil, as the Data of a setProcessMetadata command
NilData == 0

\* the zero time.Time
ZeroTime == 0

\* app.Config: its process ID (id@domain) and the rest of its content
MkConfig(id, body) == [ID |-> id, Body |-> body]

NoConfig == MkConfig("", 0)

\* identity.User
MkUser(name, pwEnable, pw) ==
    [Name |-> name, Superuser |-> FALSE,
     UserpassEnable |-> pwEnable, UserpassPassword |-> pw,
     Auth0Enable |-> FALSE, Auth0User |-> "",
     BasicEnable |-> FALSE, BasicPassword |-> ""]

NoUser == MkUser(<<>>, FALSE, "")

\* store.Command with its typed Data, flattened
Cmd0 ==
    [Valid |-> TRUE, Operation |-> "", ID |-> "", Config |-> NoConfig, Key |-> "",
     Data |-> NilData, Name |-> <<>>, Identity |-> NoUser, Policies |-> <<>>]

CmdAddProcess(config) == [Cmd0 EXCEPT !.Operation = OpAddProcess, !.Config = config]

CmdRemoveProcess(id) == [Cmd0 EXCEPT !.Operation = OpRemoveProcess, !.ID = id]

CmdUpdateProcess(id, config) ==
    [Cmd0 EXCEPT !.Operation = OpUpdateProcess, !.ID = id, !.Config = config]

CmdSetProcessMetadata(id, key, data) ==
    [Cmd0 EXCEPT !.Operation = OpSetProcessMetadata, !.ID = id, !.Key = key, !.Data = data]

CmdAddIdentity(u) == [Cmd0 EXCEPT !.Operation = OpAddIdentity, !.Identity = u]

CmdUpdateIdentity(name, u) ==
    [Cmd0 EXCEPT !.Operation = OpUpdateIdentity, !.Name = name, !.Identity = u]

CmdRemoveIdentity(name) == [Cmd0 EXCEPT !.Operation = OpRemoveIdentity, !.Name = name]

CmdSetPolicies(name, p) ==
    [Cmd0 EXCEPT !.Operation = OpSetPolicies, !.Name = name, !.Policies = p]

\* an entry whose Data is not the JSON of a Command
CmdGarbage == [Cmd0 EXCEPT !.Valid = FALSE]

\* an entry with an operation the store does not know
CmdUnknown == [Cmd0 EXCEPT !.Operation = "setNodeState"]

NewStore ==
    [Process |-> EmptyMap,
     Users |-> [UpdatedAt |-> ZeroTime, Users |-> EmptyMap],
     Policies |-> [UpdatedAt |-> ZeroTime, Policies |-> EmptyMap]]

\* the result of an operation on the store: the store after it and its error
Res(s, err) == [s |-> s, err |-> err]

----------------------------------------------------------------------------
(* Operations of the store; now is the value time.Now() returns *)

\* app.Config.ProcessID().String()
ProcessIDString(config) == config.ID

\* app.Config.Hash(): covers every field of the config, the ID included
ConfigHash(config) == <<config.ID, config.Body>>

\* addProcess storing the process in a new map instead of the store's map
addProcess_newMap(s, cmd, now) ==
    LET id == ProcessIDString(cmd.Config) IN
    IF id \in DOMAIN s.Process
    THEN Res(s, ErrAlreadyExists)
    ELSE Res([s EXCEPT !.Process = Put(EmptyMap, id,
                 [CreatedAt |-> now, UpdatedAt |-> now,
                  Config |-> cmd.Config, Metadata |-> EmptyMetadata])],
             ErrNil)

\* store.addProcess
addProcess(s, cmd, now) ==
    LET id == ProcessIDString(cmd.Config) IN
    IF id \in DOMAIN s.Process
    THEN Res(s, ErrAlreadyExists)
    ELSE Res([s EXCEPT !.Process = Put(@, id,
                 [CreatedAt |-> now, UpdatedAt |-> now,
                  Config |-> cmd.Config, Metadata |-> EmptyMetadata])],
             ErrNil)

\* removeProcess with the delete left out
removeProcess_keepsRecord(s, cmd) ==
    IF cmd.ID \notin DOMAIN s.Process THEN Res(s, ErrNotFound) ELSE Res(s, ErrNil)

removeProcess(s, cmd) ==
    LET id == cmd.ID IN
    IF id \notin DOMAIN s.Process
    THEN Res(s, ErrNotFound)
    ELSE Res([s EXCEPT !.Process = Del(@, id)], ErrNil)

\* updateProcess with the check of the new key left out
updateProcess_overwritesTaken(s, cmd, now) ==
    LET srcid == cmd.ID
        dstid == ProcessIDString(cmd.Config)
        p == [CreatedAt |-> ZeroTime, UpdatedAt |-> now,
              Config |-> cmd.Config, Metadata |-> NilMetadata]
    IN
    IF srcid \notin DOMAIN s.Process
    THEN Res(s, ErrNotFound)
    ELSE IF ConfigHash(s.Process[srcid].Config) = ConfigHash(cmd.Config)
    THEN Res(s, ErrNil)
    ELSE Res([s EXCEPT !.Process = Put(Del(@, srcid), dstid, p)], ErrNil)

updateProcess(s, cmd, now) ==
    LET srcid == cmd.ID
        dstid == ProcessIDString(cmd.Config)
        \* Process{UpdatedAt: time.Now(), Config: cmd.Config}
        p == [CreatedAt |-> ZeroTime, UpdatedAt |-> now,
              Config |-> cmd.Config, Metadata |-> NilMetadata]
    IN
    IF srcid \notin DOMAIN s.Process
    THEN Res(s, ErrNotFound)
    ELSE IF ConfigHash(s.Process[srcid].Config) = ConfigHash(cmd.Config)
    THEN Res(s, ErrNil)
    ELSE IF srcid = dstid
    THEN Res([s EXCEPT !.Process = Put(@, srcid, p)], ErrNil)
    ELSE IF dstid \in DOMAIN s.Process
    THEN Res(s, ErrAlreadyExists)
    ELSE Res([s EXCEPT !.Process = Put(Del(@, srcid), dstid, p)], ErrNil)

\* setProcessMetadata that starts from a fresh map instead of the stored one
setProcessMetadata_freshMap(s, cmd, now) ==
    LET id == cmd.ID IN
    IF id \notin DOMAIN s.Process
    THEN Res(s, ErrNotFound)
    ELSE LET p == s.Process[id]
             kv == IF cmd.Data = NilData
                   THEN EmptyMap
                   ELSE Put(EmptyMap, cmd.Key, cmd.Data)
         IN Res([s EXCEPT !.Process = Put(@, id,
                    [p EXCEPT !.Metadata = [isnil |-> FALSE, kv |-> kv],
                              !.UpdatedAt = now])],
                ErrNil)

setProcessMetadata(s, cmd, now) ==
    LET id == cmd.ID IN
    IF id \notin DOMAIN s.Process
    THEN Res(s, ErrNotFound)
    ELSE LET p == s.Process[id]
             kv == IF cmd.Data = NilData
                   THEN Del(p.Metadata.kv, cmd.Key)
                   ELSE Put(p.Metadata.kv, cmd.Key, cmd.Data)
         IN Res([s EXCEPT !.Process = Put(@, id,
                    [p EXCEPT !.Metadata = [isnil |-> FALSE, kv |-> kv],
                              !.UpdatedAt = now])],
                ErrNil)

addIdentity(s, cmd, now) ==
    IF cmd.Identity.Name \in DOMAIN s.Users.Users
    THEN Res(s, ErrAlreadyExists)
    ELSE Res([s EXCEPT !.Users = [UpdatedAt |-> now,
                                  Users |-> Put(@.Users, cmd.Identity.Name, cmd.Identity)]],
             ErrNil)

\* updateIdentity with the collision check of a rename left out
updateIdentity_overwritesTaken(s, cmd, now) ==
    IF cmd.Name \in DOMAIN s.Users.Users
    THEN Res([s EXCEPT !.Users = [UpdatedAt |-> now,
                                  Users |-> Put(@.Users, cmd.Identity.Name, cmd.Identity)]],
             ErrNil)
    ELSE Res(s, ErrNil)

updateIdentity(s, cmd, now) ==
    LET set == [s EXCEPT !.Users = [UpdatedAt |-> now,
                                    Users |-> Put(@.Users, cmd.Identity.Name, cmd.Identity)]]
    IN
    IF cmd.Name \in DOMAIN s.Users.Users
    THEN IF cmd.Name = cmd.Identity.Name
         THEN Res(set, ErrNil)
         ELSE IF cmd.Identity.Name \notin DOMAIN s.Users.Users
              THEN Res(set, ErrNil)
              ELSE Res(s, ErrAlreadyExists)
    ELSE Res(s, ErrNil)

\* removeIdentity with the purge of the policies left out
removeIdentity_keepsPolicies(s, cmd, now, now2) ==
    Res([s EXCEPT !.Users = [UpdatedAt |-> now, Users |-> Del(@.Users, cmd.Name)],
                  !.Policies = [@ EXCEPT !.UpdatedAt = now2]],
        ErrNil)

\* time.Now() is read twice: now for the users, now2 for the policies
removeIdentity(s, cmd, now, now2) ==
    Res([s EXCEPT !.Users = [UpdatedAt |-> now, Users |-> Del(@.Users, cmd.Name)],
                  !.Policies = [UpdatedAt |-> now2,
                                Policies |-> Del(@.Policies, cmd.Name)]],
        ErrNil)

\* setPolicies that appends to the stored list instead of replacing it
setPolicies_appends(s, cmd, now) ==
    LET old == IF cmd.Name \in DOMAIN s.Policies.Policies
               THEN s.Policies.Policies[cmd.Name] ELSE <<>>
    IN Res([s EXCEPT !.Policies = [UpdatedAt |-> now,
                                   Policies |-> Put(@.Policies, cmd.Name,
                                                    old \o cmd.Policies)]],
           ErrNil)

setPolicies(s, cmd, now) ==
    Res([s EXCEPT !.Policies = [UpdatedAt |-> now,
                                Policies |-> Put(Del(@.Policies, cmd.Name),
                                                 cmd.Name, cmd.Policies)]],
        ErrNil)

\* the operations of the switch of store.Apply
KnownOperations ==
    {OpAddProcess, OpRemoveProcess, OpUpdateProcess, OpSetProcessMetadata,
     OpAddIdentity, OpUpdateIdentity, OpRemoveIdentity, OpSetPolicies}

\* the callback called whatever the operation returned
Callback_onError(op, err) == op

\* the end of store.Apply after the switch: an error is returned, otherwise
\* the callback is called with the operation ("" when it is not called)
Callback(op, err) == IF err = ErrNil THEN op ELSE ""

\* store.Apply: the store after the entry, the value Apply returns, and the
\* operation the OnApply callback is called with ("" when it is not called)
Apply(s, cmd, now, now2) ==
    LET r == CASE cmd.Operation = OpAddProcess -> addProcess(s, cmd, now)
               [] cmd.Operation = OpRemoveProcess -> removeProcess(s, cmd)
               [] cmd.Operation = OpUpdateProcess -> updateProcess(s, cmd, now)
               [] cmd.Operation = OpSetProcessMetadata -> setProcessMetadata(s, cmd, now)
               [] cmd.Operation = OpAddIdentity -> addIdentity(s, cmd, now)
               [] cmd.Operation = OpUpdateIdentity -> updateIdentity(s, cmd, now)
               [] cmd.Operation = OpRemoveIdentity -> removeIdentity(s, cmd, now, now2)
               [] cmd.Operation = OpSetPolicies -> setPolicies(s, cmd, now)
               [] OTHER -> Res(s, ErrNil)
        known == cmd.Operation \in KnownOperations
    IN
    IF ~cmd.Valid
    THEN [s |-> s, err |-> ErrInvalidEntry, cb |-> ""]
    ELSE [s |-> r.s, err |-> r.err,
          cb |-> IF known THEN Callback(cmd.Operation, r.err) ELSE ""]

\* store.PolicyUserList: the policies of one name
PolicyUserList(s, name) ==
    IF name \in DOMAIN s.Policies.Policies THEN s.Policies.Policies[name] ELSE <<>>

----------------------------------------------------------------------------
(* Validation of an identity *)

\* the characters of [A-Za-z0-9_-]
NameChars ==
    {"a", "b", "c", "d", "e", "f", "g", "h", "i", "j", "k", "l", "m",
     "n", "o", "p", "q", "r", "s", "t", "u", "v", "w", "x", "y", "z",
     "A", "B", "C", "D", "E", "F", "G", "H", "I", "J", "K", "L", "M",
     "N", "O", "P", "Q", "R", "S", "T", "U", "V", "W", "X", "Y", "Z",
     "0", "1", "2", "3", "4", "5", "6", "7", "8", "9", "_", "-"}

ErrNameRequired == "the name is required"
ErrNameChars == "the name can only the contain [A-Za-z0-9_-]"
ErrAPIPassword == "a password for API login is required"
ErrAuth0User == "a user for Auth0 login is required"
ErrBasicPassword == "a password for service basic auth is required"

\* User.validate: the error it returns, ErrNil for none
validate(u) ==
    IF Len(u.Name) = 0 THEN ErrNameRequired
    ELSE IF \E i \in 1..Len(u.Name) : u.Name[i] \notin NameChars THEN ErrNameChars
    ELSE IF u.UserpassEnable /\ u.UserpassPassword = "" THEN ErrAPIPassword
    ELSE IF u.Auth0Enable /\ u.Auth0User = "" THEN ErrAuth0User
    ELSE IF u.BasicEnable /\ u.BasicPassword = "" THEN ErrBasicPassword
    ELSE ErrNil

----------------------------------------------------------------------------
(* Snapshot and Restore: encoding/json on the store struct *)

JNull == [t |-> "null"]

JObject(m) == [t |-> "object", v |-> m]

\* json.Marshal of a Process: a nil Metadata map is written as null
MarshalProcess(p) ==
    [CreatedAt |-> p.CreatedAt, UpdatedAt |-> p.UpdatedAt, Config |-> p.Config,
     Metadata |-> IF p.Metadata.isnil THEN JNull ELSE JObject(p.Metadata.kv)]

\* json.Marshal(s): the exported fields Process, Users and Policies
Marshal(s) ==
    [Process |-> JObject([k \in DOMAIN s.Process |-> MarshalProcess(s.Process[k])]),
     Users |-> [UpdatedAt |-> s.Users.UpdatedAt, Users |-> JObject(s.Users.Users)],
     Policies |-> [UpdatedAt |-> s.Policies.UpdatedAt,
                   Policies |-> JObject(s.Policies.Policies)]]

\* store.Snapshot: the blob of fsmSnapshot.data
Snapshot(s) == Marshal(s)

\* decoding a JSON object into a new Process value
UnmarshalProcess(j) ==
    [CreatedAt |-> j.CreatedAt, UpdatedAt |-> j.UpdatedAt, Config |-> j.Config,
     Metadata |-> IF j.Metadata.t = "null" THEN NilMetadata
                  ELSE [isnil |-> FALSE, kv |-> j.Metadata.v]]

\* the elements of a JSON object of processes, each decoded into a new Process
UnmarshalProcesses(j) ==
    IF j.t = "null" THEN j
    ELSE JObject([k \in DOMAIN j.v |-> UnmarshalProcess(j.v[k])])

\* decoding JSON into an existing Go map: null sets the map to nil; an object
\* is decoded into the map that is there, whose other entries are kept, each
\* element of the object being a new value
UnmarshalIntoMap(m, j) ==
    IF j.t = "null" THEN EmptyMap
    ELSE [k \in (DOMAIN m) \cup (DOMAIN j.v) |->
             IF k \in DOMAIN j.v THEN j.v[k] ELSE m[k]]

\* dec.Decode(s): the blob decoded into the store that is there
Decode(s, blob) ==
    [Process |-> UnmarshalIntoMap(s.Process, UnmarshalProcesses(blob.Process)),
     Users |-> [UpdatedAt |-> blob.Users.UpdatedAt,
                Users |-> UnmarshalIntoMap(s.Users.Users, blob.Users.Users)],
     Policies |-> [UpdatedAt |-> blob.Policies.UpdatedAt,
                   Policies |-> UnmarshalIntoMap(s.Policies.Policies,
                                                 blob.Policies.Policies)]]

\* store.Restore without the loop that makes nil Metadata maps empty ones
Restore_keepsNil(s, blob) == Decode(s, blob)

\* store.Restore: Decode, then every nil Metadata map becomes an empty one
Restore(s, blob) ==
    LET d == Decode(s, blob) IN
    [d EXCEPT !.Process =
        [k \in DOMAIN d.Process |->
            IF d.Process[k].Metadata.isnil
            THEN [d.Process[k] EXCEPT !.Metadata = EmptyMetadata]
            ELSE d.Process[k]]]

----------------------------------------------------------------------------
(* Inputs *)

\* names are sequences of characters
Alice == <<"a">>

Bob == <<"b">>

Anon == <<"$", "a", "n", "o", "n">>

\* a name with a character outside [A-Za-z0-9_-]
BadName == <<"a", "!">>

UserNames == {Alice, Bob}

\* the identities handed to the coordinator
CoordUsers ==
    {MkUser(n, TRUE, "pw1") : n \in {Alice, BadName, <<>>}}
        \cup {MkUser(Alice, TRUE, "")}

\* the names handed to the coordinator
CoordNames == {Alice, BadName}

StoreUsers == {MkUser(n, TRUE, pw) : n \in UserNames, pw \in {"pw1", "pw2"}}

PolicyNames == {Alice, Anon}

PolicyLists == {<<>>, <<"p1">>, <<"p2", "p1">>}

\* the entries the leader commits in the replication specifications
ReplCommands ==
    {CmdAddProcess(MkConfig("a@d", 1)), CmdRemoveProcess("a@d"),
     CmdSetProcessMetadata("a@d", "k1", 1),
     CmdAddIdentity(MkUser(Alice, TRUE, "pw1")), CmdSetPolicies(Alice, <<"p1">>)}

PIDs == {"a@d", "b@d"}

Bodies == {1, 2}

Configs == {MkConfig(id, b) : id \in PIDs, b \in Bodies}

\* the configs of one process ID
ConfigsA == {MkConfig("a@d", b) : b \in Bodies}

MetaKeys == {"k1", "k2", "k3"}

MetaValues == {1, 2}

----------------------------------------------------------------------------
(* The state machine *)

\* node: where it ran; pre: that store before it; from: for a Restore, the state
\* the snapshot was taken in
NoLast == [node |-> 0, cmd |-> Cmd0, err |-> ErrNil, cb |-> "", now |-> 0,
           pre |-> NewStore, from |-> NewStore]

\* what live becomes by an entry for which Apply returned err
LiveAfter(l, cmd, err) ==
    IF err # ErrNil THEN l
    ELSE CASE cmd.Operation = OpAddProcess -> l \cup {ProcessIDString(cmd.Config)}
           [] cmd.Operation = OpRemoveProcess -> l \ {cmd.ID}
           [] cmd.Operation = OpUpdateProcess ->
                  (l \ {cmd.ID}) \cup {ProcessIDString(cmd.Config)}
           [] OTHER -> l

NoRun == [id |-> "", keys |-> {}, base |-> {}, errs |-> 0]

\* a run: consecutive setProcessMetadata entries with non-nil values and distinct
\* keys for one existing process, with no other entry for that process in
\* between; base is the set of metadata keys the process had when the run began
RunAfter(r, s, cmd, err) ==
    LET touches == \/ cmd.ID = r.id
                   \/ ProcessIDString(cmd.Config) = r.id
        isSet == /\ cmd.Operation = OpSetProcessMetadata
                 /\ cmd.Data # NilData
                 /\ cmd.ID \in DOMAIN s.Process
        errs == IF err = ErrNil THEN 0 ELSE 1
    IN
    IF isSet
    THEN IF cmd.ID = r.id /\ cmd.Key \notin r.keys
         THEN [r EXCEPT !.keys = @ \cup {cmd.Key}, !.errs = @ + errs]
         ELSE [id |-> cmd.ID, keys |-> {cmd.Key},
               base |-> DOMAIN s.Process[cmd.ID].Metadata.kv, errs |-> errs]
    ELSE IF r.id # "" /\ touches THEN NoRun ELSE r

NoSnapshot == [taken |-> FALSE, index |-> 0, data |-> JNull, state |-> NewStore]

\* op, name, identity: the method and its arguments; ret: what it returned;
\* forwarded: it dispatched a request to the leader; submitted: it called
\* raft.Apply; committed: the entry was committed and applied; fsmErr: what
\* store.Apply returned for it; degraded: the cluster was degraded when the
\* method was called
NoCall == [op |-> "", name |-> <<>>, identity |-> NoUser, ret |-> ErrNil,
           forwarded |-> FALSE, submitted |-> FALSE, committed |-> FALSE,
           fsmErr |-> ErrNil, degraded |-> FALSE]

\* an address host:port; the empty string is the address without a host
Addr(host, port) == [host |-> host, port |-> port]

NoAddress == Addr("", 0)

\* a port that strconv.Atoi does not parse
BadPort == -1

NoDispatch == [op |-> "", addr |-> NoAddress]

\* the forwarder of a node started without a join address
InitForwarderIdle ==
    /\ fwdAddress = NoAddress
    /\ announced = {}
    /\ dispatch = NoDispatch
    /\ hasRaftLeader = FALSE

\* a server of the Raft configuration
Server(id, address) == [id |-> id, address |-> address]

\* node 1
SelfID == "n1"

SelfAddress == Addr("n1", 8000)

\* pc: where the call stands; id: the node to remove; leader: IsRaftLeader()
\* at the call; servers: the configuration the call read; ret: what it
\* returned; transferred: it initiated leadership transfer; forwarded: it
\* forwarded Leave; submitted: it submitted removeNode; removed: it called
\* RemoveServer
NoLeave == [pc |-> "idle", id |-> "", leader |-> FALSE, servers |-> {},
            ret |-> ErrNil, transferred |-> FALSE, forwarded |-> FALSE,
            submitted |-> FALSE, removed |-> FALSE]

\* id, address: the joining node; leader: IsRaftLeader() at the call; before,
\* after: the configuration before and after the call; removed: the servers
\* RemoveServer has removed; addVoter: AddVoter was called; added: it
\* succeeded; submitted: addNode was submitted
NoJoin == [done |-> FALSE, id |-> "", address |-> NoAddress, leader |-> FALSE,
           ret |-> ErrNil, before |-> {}, after |-> {}, removed |-> {},
           addVoter |-> FALSE, added |-> FALSE, submitted |-> FALSE]

\* a node that is the only server of its configuration
InitMemberIdle ==
    /\ obsCh = <<>>
    /\ raftConfig = {Server(SelfID, SelfAddress)}
    /\ leave = NoLeave
    /\ join = NoJoin

\* what a tick of the sentinel did: the time since the last contact it
\* computed, isEmergencyLeader before the tick and the signal it sent
NoTick == [ticked |-> FALSE, lastContactSince |-> 0, was |-> FALSE, signal |-> "none"]

\* cluster.sentinel before its first tick: start is time.Now()
InitSentinelState ==
    /\ wallClock = 0
    /\ sentinel = [start |-> 0, isEmergencyLeader |-> FALSE, tick |-> NoTick]
    /\ raftEmergencyNotifyCh = <<>>

\* NodeState; Files is taken as the set of its elements, the consumer only
\* ranges over it
NodeState(id, state, files, lastUpdate) ==
    [ID |-> id, State |-> state, Files |-> files, LastUpdate |-> lastUpdate]

NoNodeState == NodeState("", "", {}, 0)

\* the ids of the other nodes of the cluster
Peers == {"n2", "n3"}

\* the call of GetURL or GetFile the latest step made, if it made one: op is
\* GetURL or GetFile, found: it returned no error
NoLookup == [op |-> "", path |-> "", found |-> FALSE]

\* cluster.New: the three maps of the file index and the registry start empty;
\* processed holds the latest update and the latest State of every node
InitIndexState ==
    /\ nodes = {}
    /\ fileid = EmptyMap
    /\ idfiles = EmptyMap
    /\ idupdate = EmptyMap
    /\ processed = [update |-> NoNodeState, reported |-> [n \in Peers |-> ""]]
    /\ lookup = NoLookup

\* the connections that subscribe to the resource
Subscribers == {1, 2, 3}

\* no subscriber holds server.lock
Unlocked == 0

\* a nil *proxy
NilProxy == 0

\* pc: where handleSubscribe stands; p: its local p; found: what it read from
\* server.proxy; dialled: it called srt.Dial; reg: the value of p.listeners
\* it read for the increment or decrement under way
NoSubscriber == [pc |-> "idle", p |-> NilProxy, found |-> NilProxy,
                 dialled |-> FALSE, reg |-> 0]

\* srt.New: no proxy, nobody subscribes
InitProxyState ==
    /\ srtLock = Unlocked
    /\ proxy = NilProxy
    /\ proxies = <<>>
    /\ subscriber = [s \in Subscribers |-> NoSubscriber]

\* the connections that publish the resource
Publishers == {4, 5}

\* no channel of the resource
NoChannel == 0

\* channel: the publisher of the channel in server.channels; pc[p]: where
\* handlePublish stands for connection p
InitPublishState ==
    publish = [channel |-> NoChannel, pc |-> [p \in Publishers |-> "idle"]]

\* proxy.NewNode: no sample yet; pc: where the metrics ticker stands; err,
\* metrics: what the latest query returned; ticked: a tick has completed
InitPeerState ==
    peer = [pc |-> "tick", ticked |-> FALSE, err |-> FALSE,
            metrics |-> [cpu_ncpu |-> 0, cpu_idle |-> 0, mem_total |-> 0, mem_free |-> 0],
            resources |-> [ncpu |-> 0, cpu |-> 0, mem |-> 0, memTotal |-> 0]]

\* the goroutines that call cluster.Shutdown
Callers == {1, 2}

NoCaller == 0

\* an event of a shutdown; node is the peer of a stop, "" otherwise
Event(e, node) == [e |-> e, node |-> node]

\* the cluster after New: lock is the holder of shutdownLock, flag is
\* c.shutdown, nodes is c.nodes, joined the peers AddNodeX was called for,
\* todo the peers the loop of Shutdown has yet to stop, events what was done
\* to the shutdown channel, the peers and Raft, in order
InitShutdownState ==
    shutdown = [lock |-> NoCaller, flag |-> FALSE, nodes |-> {}, joined |-> {},
                todo |-> {}, events |-> <<>>,
                pc |-> [c \in Callers |-> "idle"],
                ret |-> [c \in Callers |-> "none"]]

\* iam.Auth0Tenant
Auth0Tenant(domain, audience, clientid) ==
    [Domain |-> domain, Audience |-> audience, ClientID |-> clientid]

NoAuth0Tenant == Auth0Tenant("", "", "")

\* Auth0Tenant.key
key(t) == t.Domain \o t.Audience

\* iam.User: its name, its Auth0 login and the tenant of that login
IAMUser(name, enable, subject, tenant) ==
    [Name |-> name, Superuser |-> FALSE,
     UserpassEnable |-> FALSE, UserpassPassword |-> "",
     Auth0Enable |-> enable, Auth0User |-> subject, Auth0Tenant |-> tenant,
     BasicEnable |-> FALSE, BasicPassword |-> ""]

\* the tenant objects newAuth0Tenant can return; NilTenant is the nil pointer
TenantObjects == 1..6

NilTenant == 0

\* iam.identity: the user, the pointer to its tenant, the valid flag
Identity(user, tenant) == [user |-> user, tenant |-> tenant, valid |-> TRUE]

\* the nil *identity
NilIdentity == [user |-> IAMUser(<<>>, FALSE, "", NoAuth0Tenant),
                tenant |-> NilTenant, valid |-> FALSE]

ErrExists == "identity already exists"
ErrExist == "identity already exist"
ErrAuth0Taken == "the Auth0 user has already an identity"
ErrJWKS == "jwks.NewFromURL failed"
ErrNoUpdate == "this identity can't be updated"
ErrNoRemove == "this identity can't be removed"
ErrIAMNotFound == "not found"

\* the identityManager of NewIdentityManager before load: objects holds the
\* auth0Tenant values that a pointer of the manager or of an identity refers
\* to; written says whether the latest call has written users.json, and file
\* is the set of users it has written
EmptyManager ==
    [root |-> NilIdentity, identities |-> EmptyMap, tenants |-> EmptyMap,
     auth0UserIdentityMap |-> EmptyMap, objects |-> EmptyMap,
     autosave |-> FALSE, written |-> FALSE, file |-> {}]

\* the manager at the start of a call, which has written nothing yet
Unwritten(m) == [m EXCEPT !.written = FALSE, !.file = {}]

\* the result of a function of the manager: the manager after it, the
\* identity it returns and its error
IAMRes(m, identity, err) == [m |-> m, identity |-> identity, err |-> err]

\* the object a call of newAuth0Tenant allocates
NewObject(m) ==
    CHOOSE t \in TenantObjects \ DOMAIN m.objects :
        \A x \in TenantObjects \ DOMAIN m.objects : t <= x

\* newAuth0Tenant
newAuth0Tenant(tenant) ==
    [domain |-> tenant.Domain, audience |-> tenant.Audience,
     clientIDs |-> {tenant.ClientID}, cancelled |-> FALSE]

\* create without the check of im.auth0UserIdentityMap
create_anySubject(m, u, net) ==
    IF ~u.Auth0Enable
    THEN IAMRes(m, Identity(u, NilTenant), ErrNil)
    ELSE LET auth0Key == key(u.Auth0Tenant) IN
         IF auth0Key \notin DOMAIN m.tenants
         THEN IF ~net
              THEN IAMRes(m, NilIdentity, ErrJWKS)
              ELSE LET t == NewObject(m) IN
                   IAMRes([m EXCEPT
                              !.objects = Put(@, t, newAuth0Tenant(u.Auth0Tenant)),
                              !.tenants = Put(@, auth0Key, t),
                              !.auth0UserIdentityMap = Put(@, u.Auth0User, u.Name)],
                          Identity(u, t), ErrNil)
         ELSE LET t == m.tenants[auth0Key] IN
              IAMRes([m EXCEPT
                         !.objects[t].clientIDs = @ \cup {u.Auth0Tenant.ClientID},
                         !.auth0UserIdentityMap = Put(@, u.Auth0User, u.Name)],
                     Identity(u, t), ErrNil)

\* identityManager.create; net tells whether jwks.NewFromURL succeeds
create(m, u, net) ==
    IF ~u.Auth0Enable
    THEN IAMRes(m, Identity(u, NilTenant), ErrNil)
    ELSE IF u.Auth0User \in DOMAIN m.auth0UserIdentityMap
    THEN IAMRes(m, NilIdentity, ErrAuth0Taken)
    ELSE LET auth0Key == key(u.Auth0Tenant) IN
         IF auth0Key \notin DOMAIN m.tenants
         THEN IF ~net
              THEN IAMRes(m, NilIdentity, ErrJWKS)
              ELSE LET t == NewObject(m) IN
                   IAMRes([m EXCEPT
                              !.objects = Put(@, t, newAuth0Tenant(u.Auth0Tenant)),
                              !.tenants = Put(@, auth0Key, t),
                              !.auth0UserIdentityMap = Put(@, u.Auth0User, u.Name)],
                          Identity(u, t), ErrNil)
         ELSE LET t == m.tenants[auth0Key] IN
              \* tenant.AddClientID
              IAMRes([m EXCEPT
                         !.objects[t].clientIDs = @ \cup {u.Auth0Tenant.ClientID},
                         !.auth0UserIdentityMap = Put(@, u.Auth0User, u.Name)],
                     Identity(u, t), ErrNil)

\* identityManager.save: the users of im.identities are written to the file
save(m) ==
    [m EXCEPT !.file = {m.identities[n].user : n \in DOMAIN m.identities},
              !.written = TRUE]

\* if im.autosave { im.save(im.filePath) }
autosave(m) == IF m.autosave THEN save(m) ELSE m

\* identityManager.remove
remove(m, name) ==
    IF m.root.user.Name = name THEN IAMRes(m, NilIdentity, ErrNoRemove)
    ELSE IF name \notin DOMAIN m.identities THEN IAMRes(m, NilIdentity, ErrIAMNotFound)
    ELSE
    LET identity == m.identities[name]
        \* delete(im.identities, name); identity.valid = false
        m1 == [m EXCEPT !.identities = Del(@, name)]
    IN
    IF ~identity.user.Auth0Enable
    THEN IAMRes(autosave(m1), NilIdentity, ErrNil)
    ELSE
    LET m2 == [m1 EXCEPT !.auth0UserIdentityMap = Del(@, identity.user.Auth0User)]
        \* the loop over im.identities, of which im.root is not one
        found == \E n \in DOMAIN m2.identities :
                     m2.identities[n].tenant = identity.tenant
    IN
    IF ~found
    THEN \* identity.tenant.Cancel(); delete(im.tenants, key)
         IAMRes(autosave([m2 EXCEPT
                    !.objects[identity.tenant].cancelled = TRUE,
                    !.tenants = Del(@, key(identity.user.Auth0Tenant))]),
                NilIdentity, ErrNil)
    ELSE
    LET found2 == \E n \in DOMAIN m2.identities :
                      /\ m2.identities[n].user.Auth0Enable
                      /\ m2.identities[n].user.Auth0Tenant.ClientID
                             = identity.user.Auth0Tenant.ClientID
    IN
    \* identity.tenant.RemoveClientID
    IAMRes(autosave(IF found2 THEN m2
                    ELSE [m2 EXCEPT !.objects[identity.tenant].clientIDs =
                                        @ \ {identity.user.Auth0Tenant.ClientID}]),
           NilIdentity, ErrNil)

\* identityManager.getIdentity: the identity and whether it was found
getIdentity(m, name) ==
    IF m.root.user.Name = name THEN m.root
    ELSE IF name \in DOMAIN m.identities THEN m.identities[name]
    ELSE NilIdentity

\* identityManager.GetVerifierByAuth0: the identity, NilIdentity for not found
GetVerifierByAuth0(m, subject) ==
    IF subject \notin DOMAIN m.auth0UserIdentityMap THEN NilIdentity
    ELSE getIdentity(m, m.auth0UserIdentityMap[subject])

\* identityManager.Create; im.root is nil while the users file is loaded
Create(m, u, net) ==
    IF validate(u) # ErrNil THEN IAMRes(m, NilIdentity, validate(u))
    ELSE IF m.root # NilIdentity /\ m.root.user.Name = u.Name
    THEN IAMRes(m, NilIdentity, ErrExists)
    ELSE IF u.Name \in DOMAIN m.identities THEN IAMRes(m, NilIdentity, ErrExists)
    ELSE LET r == create(m, u, net) IN
         IF r.err # ErrNil THEN IAMRes(m, NilIdentity, r.err)
         ELSE IAMRes(autosave([r.m EXCEPT !.identities = Put(@, u.Name, r.identity)]),
                     NilIdentity, ErrNil)

\* identityManager.Update; net and net2 are for create(u) and for the
\* create(oldidentity.user) that follows a failed create(u)
Update(m, name, u, net, net2) ==
    IF validate(u) # ErrNil THEN IAMRes(m, NilIdentity, validate(u))
    ELSE IF m.root.user.Name = name THEN IAMRes(m, NilIdentity, ErrNoUpdate)
    ELSE IF name \notin DOMAIN m.identities THEN IAMRes(m, NilIdentity, ErrIAMNotFound)
    ELSE IF name # u.Name /\ getIdentity(m, u.Name) # NilIdentity
    THEN IAMRes(m, NilIdentity, ErrExist)
    ELSE
    LET oldidentity == m.identities[name]
        rm == remove(m, name)
        r == create(rm.m, u, net)
        old == create(rm.m, oldidentity.user, net2)
    IN
    IF rm.err # ErrNil THEN IAMRes(m, NilIdentity, rm.err)
    ELSE IF r.err # ErrNil
    THEN IF old.err # ErrNil
         THEN IAMRes(rm.m, NilIdentity, old.err)
         ELSE IAMRes([old.m EXCEPT !.identities =
                          Put(@, oldidentity.user.Name, old.identity)],
                     NilIdentity, r.err)
    ELSE IAMRes(autosave([r.m EXCEPT !.identities = Put(@, u.Name, r.identity)]),
                NilIdentity, ErrNil)

\* the objects that no pointer refers to any more are left out
Collected(m) ==
    LET used == {m.tenants[k] : k \in DOMAIN m.tenants}
                \cup {m.identities[n].tenant : n \in DOMAIN m.identities}
                \cup {m.root.tenant}
    IN [m EXCEPT !.objects = [t \in (DOMAIN m.objects) \cap used |-> m.objects[t]]]

\* identityManager.load: Create for every user of the file, in the file's
\* order; nets[i] is for the i-th user
RECURSIVE load(_, _, _)
load(m, users, nets) ==
    IF users = <<>> THEN IAMRes(m, NilIdentity, ErrNil)
    ELSE LET r == Create(m, Head(users), Head(nets)) IN
         IF r.err # ErrNil THEN r
         ELSE load(r.m, Tail(users), Tail(nets))

\* there is no identity manager yet; op, name, user, err and pre are those of
\* the latest call and the manager before it
NoManager == EmptyManager

NoIAMCall == [op |-> "", name |-> <<>>, user |-> NilIdentity.user, err |-> ErrNil,
              pre |-> NoManager]

InitIAMState ==
    iam = [built |-> FALSE, im |-> NoManager, call |-> NoIAMCall]

LimitModeHard == 0

LimitModeSoft == 1

\* the latest call on the limiter: Limit's argument, and whether collect has
\* started onLimit
NoLimiterCall == [op |-> "", enable |-> FALSE, onLimit |-> FALSE]

\* there is no limiter yet: proc is whether l.proc is not nil, cancelLimit the
\* loop whose context l.cancelLimit cancels (0 for nil), loops the goroutines
\* of limiter.limit started so far, suspended and action the state of the
\* supervised process and the latest of Resume and Suspend called on it, want
\* the argument of the latest call of Limit, cleared whether Stop has set
\* l.proc to nil since the latest Start
InitLimiterState ==
    limiter = [built |-> FALSE, mode |-> LimitModeHard, proc |-> FALSE,
               cleared |-> FALSE, ticker |-> FALSE, enableLimit |-> FALSE, cancelLimit |-> 0,
               loops |-> <<>>, suspended |-> FALSE, action |-> "none",
               want |-> FALSE, call |-> NoLimiterCall]

\* the goroutines of a peer node: a caller of About() or Files(), the ping,
\* metrics and files tickers, and a caller of Disconnect()
RuntimeThreads == {"caller", "ping", "metrics", "files", "disconnect"}

\* the goroutines that node.files starts for the memory and disk listings
Listings == {"mem", "disk"}

\* whoever can hold a read lock of the node
Holders == RuntimeThreads \cup Listings

\* a sync.RWMutex: readers[h] read locks held by h, waiting: the goroutines
\* that stand in Lock()
NewRWMutex == [readers |-> [h \in Holders |-> 0], waiting |-> {}]

\* no tick has completed
NoContact == [kind |-> "", ok |-> FALSE, before |-> 0, at |-> 0]

\* NewNode and Connect: the peer is set and not yet reached, lastContact is
\* the zero time, the tickers wait for their first tick; fn[t]: the method
\* the goroutine is in, About or Files; list, listed: where the listing
\* goroutines stand and whether their query succeeded; tick: the latest
\* completed tick, with lastContact as it was before the tick
InitRuntimeState ==
    runtime = [peer |-> TRUE, cancelled |-> FALSE,
               state |-> "disconnected", lastContact |-> 0, now |-> 1,
               peerLock |-> NewRWMutex, stateLock |-> NewRWMutex,
               pc |-> [t \in RuntimeThreads |->
                          IF t \in {"caller", "disconnect"} THEN "idle" ELSE "tick"],
               fn |-> [t \in RuntimeThreads |-> ""],
               ok |-> [t \in RuntimeThreads |-> FALSE],
               list |-> [g \in Listings |-> "idle"],
               listed |-> [g \in Listings |-> FALSE],
               tick |-> NoContact]

InitLater ==
    /\ InitPublishState
    /\ InitPeerState
    /\ InitShutdownState
    /\ InitIAMState
    /\ InitLimiterState
    /\ InitRuntimeState

InitRest ==
    /\ InitSentinelState
    /\ InitIndexState
    /\ InitProxyState
    /\ InitLater

InitCluster ==
    /\ InitForwarderIdle
    /\ InitMemberIdle
    /\ InitRest

\* the store, the log and the coordinator after construction
InitBase ==
    /\ fsm = [n \in Nodes |-> NewStore]
    /\ clock = [n \in Nodes |-> 0]
    /\ log = <<>>
    /\ applied = [n \in Nodes |-> 0]
    /\ last = NoLast
    /\ live = {}
    /\ run = NoRun
    /\ snap = NoSnapshot
    /\ isRaftLeader = TRUE
    /\ isDegraded = FALSE
    /\ call = NoCall

\* a node after construction, before anything has called it
InitIdle ==
    /\ InitBase
    /\ InitCluster

Init ==
    /\ InitCluster
    /\ fsm = [n \in Nodes |-> NewStore]
    /\ clock = [n \in Nodes |-> 1]
    /\ log = <<>>
    /\ applied = [n \in Nodes |-> 0]
    /\ last = NoLast
    /\ live = {}
    /\ run = NoRun
    /\ snap = NoSnapshot
    /\ isRaftLeader = TRUE
    /\ isDegraded = FALSE
    /\ call = NoCall

\* node n's store applies the entry cmd, handed to it by Raft; from is the
\* state the latest Apply is to be compared with
ApplyFrom(n, cmd, from) ==
    \E now \in clock[n]..MaxTime, now2 \in clock[n]..MaxTime :
        /\ now <= now2
        /\ cmd.Operation # OpRemoveIdentity => now2 = now
        /\ LET r == Apply(fsm[n], cmd, now, now2) IN
           /\ fsm' = [fsm EXCEPT ![n] = r.s]
           /\ clock' = [clock EXCEPT ![n] = now2]
           /\ last' = [node |-> n, cmd |-> cmd, err |-> r.err, cb |-> r.cb,
                       now |-> now, pre |-> fsm[n], from |-> from]
           /\ live' = IF n = 1 THEN LiveAfter(live, cmd, r.err) ELSE live
           /\ run' = IF n = 1 THEN RunAfter(run, fsm[n], cmd, r.err) ELSE run

ApplyOn(n, cmd) == ApplyFrom(n, cmd, NewStore)

ApplyAddProcess(configs) ==
    /\ \E c \in configs : ApplyOn(1, CmdAddProcess(c))
    /\ UNCHANGED <<log, applied, snap, coordVars, clusterVars>>

ApplyRemoveProcess(ids) ==
    /\ \E id \in ids : ApplyOn(1, CmdRemoveProcess(id))
    /\ UNCHANGED <<log, applied, snap, coordVars, clusterVars>>

ApplyUpdateProcess(ids, configs) ==
    /\ \E id \in ids, c \in configs : ApplyOn(1, CmdUpdateProcess(id, c))
    /\ UNCHANGED <<log, applied, snap, coordVars, clusterVars>>

ApplySetProcessMetadata(ids, keys, values) ==
    /\ \E id \in ids, k \in keys, d \in values \cup {NilData} :
           ApplyOn(1, CmdSetProcessMetadata(id, k, d))
    /\ UNCHANGED <<log, applied, snap, coordVars, clusterVars>>

ApplyOther ==
    /\ \E c \in {CmdGarbage, CmdUnknown} : ApplyOn(1, c)
    /\ UNCHANGED <<log, applied, snap, coordVars, clusterVars>>

\* one store applying process entries for two process IDs
NextProcess ==
    \/ ApplyAddProcess(Configs)
    \/ ApplyRemoveProcess(PIDs)
    \/ ApplyUpdateProcess(PIDs, Configs)
    \/ ApplySetProcessMetadata(PIDs, {"k1"}, {1})
    \/ ApplyOther

SpecProcess == Init /\ [][NextProcess]_vars

\* the store applies the removal of the process that the latest entry added
ApplyRemoveAdded ==
    /\ last.node = 1
    /\ last.cmd.Operation = OpAddProcess
    /\ last.err = ErrNil
    /\ ApplyFrom(1, CmdRemoveProcess(ProcessIDString(last.cmd.Config)), last.pre)
    /\ UNCHANGED <<log, applied, snap, coordVars, clusterVars>>

\* one store applying process entries, a process being added and removed again
NextAddRemove ==
    \/ ApplyAddProcess(Configs)
    \/ ApplyRemoveProcess(PIDs)
    \/ ApplyUpdateProcess(PIDs, Configs)
    \/ ApplySetProcessMetadata(PIDs, {"k1"}, {1})
    \/ ApplyRemoveAdded

SpecAddRemove == Init /\ [][NextAddRemove]_vars

\* one store applying entries for one process ID and its metadata
NextMetadata ==
    \/ ApplyAddProcess(ConfigsA)
    \/ ApplyRemoveProcess(PIDs)
    \/ ApplyUpdateProcess(PIDs, ConfigsA)
    \/ ApplySetProcessMetadata(PIDs, MetaKeys, MetaValues)

SpecMetadata == Init /\ [][NextMetadata]_vars

ApplyAddIdentity(users) ==
    /\ \E u \in users : ApplyOn(1, CmdAddIdentity(u))
    /\ UNCHANGED <<log, applied, snap, coordVars, clusterVars>>

ApplyUpdateIdentity(names, users) ==
    /\ \E n \in names, u \in users : ApplyOn(1, CmdUpdateIdentity(n, u))
    /\ UNCHANGED <<log, applied, snap, coordVars, clusterVars>>

ApplyRemoveIdentity(names) ==
    /\ \E n \in names : ApplyOn(1, CmdRemoveIdentity(n))
    /\ UNCHANGED <<log, applied, snap, coordVars, clusterVars>>

ApplySetPolicies(names, lists) ==
    /\ \E n \in names, l \in lists : ApplyOn(1, CmdSetPolicies(n, l))
    /\ UNCHANGED <<log, applied, snap, coordVars, clusterVars>>

\* one store applying identity and policy entries
NextIdentity ==
    \/ ApplyAddIdentity(StoreUsers)
    \/ ApplyUpdateIdentity(UserNames, StoreUsers)
    \/ ApplyRemoveIdentity(UserNames)
    \/ ApplySetPolicies(PolicyNames, PolicyLists)

SpecIdentity == Init /\ [][NextIdentity]_vars

----------------------------------------------------------------------------
(* Replication: the leader commits entries, every node applies them in order *)

OpRestore == "Restore"

\* Raft commits an entry
Commit ==
    /\ Len(log) < MaxLog
    /\ \E c \in ReplCommands : log' = Append(log, c)
    /\ UNCHANGED <<storeVars, applied, snap, coordVars, clusterVars>>

\* Raft hands node n's store the next committed entry
ApplyNext(n) ==
    /\ applied[n] < Len(log)
    /\ ApplyOn(n, log[applied[n] + 1])
    /\ applied' = [applied EXCEPT ![n] = @ + 1]
    /\ UNCHANGED <<log, snap, coordVars, clusterVars>>

NextReplicas ==
    \/ Commit
    \/ \E n \in Nodes : ApplyNext(n)

SpecReplicas == Init /\ [][NextReplicas]_vars

\* Raft takes a snapshot of node 1's store
TakeSnapshot ==
    /\ applied[1] > snap.index
    /\ snap' = [taken |-> TRUE, index |-> applied[1], data |-> Snapshot(fsm[1]),
                state |-> fsm[1]]
    /\ UNCHANGED <<storeVars, raftVars, coordVars, clusterVars>>

\* Raft installs the snapshot on node 2, which is behind it: store.Restore
InstallSnapshot ==
    /\ snap.taken
    /\ applied[2] < snap.index
    /\ fsm' = [fsm EXCEPT ![2] = Restore(fsm[2], snap.data)]
    /\ applied' = [applied EXCEPT ![2] = snap.index]
    /\ last' = [node |-> 2, cmd |-> [Cmd0 EXCEPT !.Operation = OpRestore],
                err |-> ErrNil, cb |-> "", now |-> 0, pre |-> fsm[2],
                from |-> snap.state]
    /\ UNCHANGED <<clock, live, run, log, snap, coordVars, clusterVars>>

NextSnapshot ==
    \/ Commit
    \/ \E n \in Nodes : ApplyNext(n)
    \/ TakeSnapshot
    \/ InstallSnapshot

SpecSnapshot == Init /\ [][NextSnapshot]_vars

OpRestoreFresh == "RestoreFresh"

\* node 2 starts again: NewStore, and the snapshot is restored into it
RestoreFresh ==
    /\ snap.taken
    /\ fsm' = [fsm EXCEPT ![2] = Restore(NewStore, snap.data)]
    /\ applied' = [applied EXCEPT ![2] = snap.index]
    /\ last' = [node |-> 2, cmd |-> [Cmd0 EXCEPT !.Operation = OpRestoreFresh],
                err |-> ErrNil, cb |-> "", now |-> 0, pre |-> NewStore,
                from |-> snap.state]
    /\ UNCHANGED <<clock, live, run, log, snap, coordVars, clusterVars>>

\* the entries of the log; the update leaves the process with a nil Metadata
\* map
RestoreCommands ==
    {CmdAddProcess(MkConfig("a@d", 1)), CmdUpdateProcess("a@d", MkConfig("a@d", 2)),
     CmdSetProcessMetadata("a@d", "k1", 1), CmdAddIdentity(MkUser(Alice, TRUE, "pw1")),
     CmdSetPolicies(Alice, <<"p1">>)}

\* Raft commits an entry
CommitEntry ==
    /\ Len(log) < MaxLog
    /\ \E c \in RestoreCommands : log' = Append(log, c)
    /\ UNCHANGED <<storeVars, applied, snap, coordVars, clusterVars>>

\* node 1 applies the log, node 2 is restored from node 1's snapshots
NextRestoreFresh ==
    \/ CommitEntry
    \/ ApplyNext(1)
    \/ TakeSnapshot
    \/ RestoreFresh

SpecRestoreFresh == Init /\ [][NextRestoreFresh]_vars

----------------------------------------------------------------------------
(* The coordinator of node 1 *)

ErrDegraded == "cluster is currently degraded"
ErrInvalidIdentity == "invalid identity"
ErrApplyFailed == "applying command failed"
ErrUpstream == "upstream error"

\* the method returns ret without forwarding or submitting anything
Return(op, name, identity, ret) ==
    /\ call' = [NoCall EXCEPT !.op = op, !.name = name, !.identity = identity,
                              !.ret = ret, !.degraded = isDegraded]
    /\ UNCHANGED <<storeVars, raftVars, snap, isRaftLeader, isDegraded, clusterVars>>

\* forwarder.AddIdentity, UpdateIdentity, SetPolicies, RemoveIdentity: the
\* request is dispatched to the leader, whose answer is returned
Forward(op, name, identity) ==
    /\ \E ret \in {ErrNil, ErrUpstream} :
           call' = [NoCall EXCEPT !.op = op, !.name = name, !.identity = identity,
                                  !.ret = ret, !.forwarded = TRUE,
                                  !.degraded = isDegraded]
    /\ UNCHANGED <<storeVars, raftVars, snap, isRaftLeader, isDegraded, clusterVars>>

\* cluster.applyCommand: raft.Apply, then future.Error(); the value store.Apply
\* returned (future.Response()) is not read
applyCommand(op, name, identity, cmd) ==
    \/ \* future.Error() is an error: not leader, timeout, shutdown
       /\ call' = [NoCall EXCEPT !.op = op, !.name = name, !.identity = identity,
                                 !.ret = ErrApplyFailed, !.submitted = TRUE,
                                 !.degraded = isDegraded]
       /\ UNCHANGED <<storeVars, raftVars, snap, isRaftLeader, isDegraded, clusterVars>>
    \/ \* the entry is committed and the leader's store has applied it (the
       \* log is recorded in the replication specifications only)
       /\ ApplyOn(1, cmd)
       /\ UNCHANGED raftVars
       /\ call' = [NoCall EXCEPT !.op = op, !.name = name, !.identity = identity,
                                 !.ret = ErrNil, !.submitted = TRUE,
                                 !.committed = TRUE, !.fsmErr = last'.err,
                                 !.degraded = isDegraded]
       /\ UNCHANGED <<snap, isRaftLeader, isDegraded, clusterVars>>

AddIdentity ==
    \E identity \in CoordUsers :
        IF isDegraded
        THEN Return("AddIdentity", <<>>, identity, ErrDegraded)
        ELSE IF validate(identity) # ErrNil
        THEN Return("AddIdentity", <<>>, identity, ErrInvalidIdentity)
        ELSE IF ~isRaftLeader
        THEN Forward("AddIdentity", <<>>, identity)
        ELSE applyCommand("AddIdentity", <<>>, identity, CmdAddIdentity(identity))

UpdateIdentity ==
    \E name \in CoordNames, identity \in CoordUsers :
        IF isDegraded
        THEN Return("UpdateIdentity", name, identity, ErrDegraded)
        ELSE IF ~isRaftLeader
        THEN Forward("UpdateIdentity", name, identity)
        ELSE applyCommand("UpdateIdentity", name, identity,
                          CmdUpdateIdentity(name, identity))

SetPolicies ==
    \E name \in {Anon}, policies \in {<<>>, <<"p1">>} :
        IF isDegraded
        THEN Return("SetPolicies", name, NoUser, ErrDegraded)
        ELSE IF ~isRaftLeader
        THEN Forward("SetPolicies", name, NoUser)
        ELSE applyCommand("SetPolicies", name, NoUser, CmdSetPolicies(name, policies))

RemoveIdentity ==
    \E name \in CoordNames :
        IF isDegraded
        THEN Return("RemoveIdentity", name, NoUser, ErrDegraded)
        ELSE IF ~isRaftLeader
        THEN Forward("RemoveIdentity", name, NoUser)
        ELSE applyCommand("RemoveIdentity", name, NoUser, CmdRemoveIdentity(name))

\* cluster.AddProcess: no check of the degraded state; the submitted entry has
\* Config: nil and is for the store of package cluster, which leaves the store
\* of package store as it is
AddProcess ==
    IF ~isRaftLeader
    THEN Forward("AddProcess", <<>>, NoUser)
    ELSE \/ /\ call' = [NoCall EXCEPT !.op = "AddProcess", !.ret = ErrApplyFailed,
                                      !.submitted = TRUE, !.degraded = isDegraded]
            /\ UNCHANGED <<storeVars, raftVars, snap, isRaftLeader, isDegraded, clusterVars>>
         \/ /\ call' = [NoCall EXCEPT !.op = "AddProcess", !.ret = ErrNil,
                                      !.submitted = TRUE, !.committed = TRUE,
                                      !.degraded = isDegraded]
            /\ UNCHANGED <<storeVars, raftVars, snap, isRaftLeader, isDegraded, clusterVars>>

ErrUnsupportedNodeState == "unsupported node state"

NodeStates == {"online", "maintenance", "leave", "offline"}

\* the switch of SetNodeState without its default branch
SupportedNodeState_any(state) == TRUE

\* the switch of cluster.SetNodeState
SupportedNodeState(state) == state \in {"online", "maintenance", "leave"}

\* cluster.SetNodeState: the state is checked, the degraded state is not; the
\* operation setNodeState is one store.Apply has no case for; the call is
\* recorded with the state as its name
SetNodeState ==
    \E state \in NodeStates :
        IF ~SupportedNodeState(state)
        THEN Return("SetNodeState", <<state>>, NoUser, ErrUnsupportedNodeState)
        ELSE IF ~isRaftLeader
        THEN Forward("SetNodeState", <<state>>, NoUser)
        ELSE applyCommand("SetNodeState", <<state>>, NoUser, CmdUnknown)

\* leadership is won or lost, the cluster becomes degraded or recovers
LeadershipChange ==
    /\ \E l \in BOOLEAN, d \in BOOLEAN :
           /\ <<l, d>> # <<isRaftLeader, isDegraded>>
           /\ isRaftLeader' = l
           /\ isDegraded' = d
    /\ UNCHANGED <<storeVars, raftVars, snap, call, clusterVars>>

NextCoordinator ==
    \/ AddIdentity
    \/ UpdateIdentity
    \/ SetPolicies
    \/ RemoveIdentity
    \/ AddProcess
    \/ SetNodeState
    \/ LeadershipChange

\* the coordinator's methods do not depend on the time: the clock stands at
\* MaxTime
InitCoordinator ==
    /\ InitCluster
    /\ fsm = [n \in Nodes |-> NewStore]
    /\ clock = [n \in Nodes |-> MaxTime]
    /\ log = <<>>
    /\ applied = [n \in Nodes |-> 0]
    /\ last = NoLast
    /\ live = {}
    /\ run = NoRun
    /\ snap = NoSnapshot
    /\ isRaftLeader = TRUE
    /\ isDegraded = FALSE
    /\ call = NoCall

SpecCoordinator == InitCoordinator /\ [][NextCoordinator]_vars

----------------------------------------------------------------------------
(* The forwarder of node 1 and the address it dispatches to *)

\* the Raft addresses of the nodes of the cluster
RaftAddresses == {Addr("n1", 8000), Addr("n2", 8000), Addr("n3", 8000)}

\* config.JoinAddress: none, a member of the cluster, an address that is not a
\* member's, an address whose port is not a number
JoinAddresses == {NoAddress, Addr("n2", 8000), Addr("lb", 9000), Addr("n3", BadPort)}

\* cluster.APIAddr: the port after the Raft port on the same host; the empty
\* string when the port is not a number
APIAddr(raftAddress) ==
    IF raftAddress.port = BadPort THEN NoAddress
    ELSE Addr(raftAddress.host, raftAddress.port + 1)

\* forwarder.SetLeader
SetLeader(address) ==
    fwdAddress' = IF fwdAddress = address THEN fwdAddress ELSE address

\* cluster.trackLeaderChanges for one leader observation: the forwarder gets
\* the API address of the leader, hasRaftLeader tells whether there is one
ObserveLeader(leaderAddr) ==
    LET addr == IF leaderAddr # NoAddress THEN APIAddr(leaderAddr) ELSE leaderAddr
    IN
    /\ SetLeader(addr)
    /\ hasRaftLeader' = (addr # NoAddress)
    /\ announced' = IF leaderAddr # NoAddress
                     THEN announced \cup {addr} ELSE announced

\* cluster.New: with a join address the forwarder starts with the API address
\* of the join address
InitForwarder ==
    /\ InitBase
    /\ InitRest
    /\ \E j \in JoinAddresses :
           fwdAddress = IF j = NoAddress THEN NoAddress ELSE APIAddr(j)
    /\ announced = {}
    /\ dispatch = NoDispatch
    /\ hasRaftLeader = FALSE
    /\ InitMemberIdle

\* cluster.trackLeaderChanges: a leader observation, whose address is empty
\* when there is no leader
LeaderObservation ==
    /\ \E leaderAddr \in RaftAddresses \cup {NoAddress} : ObserveLeader(leaderAddr)
    /\ UNCHANGED <<baseVars, restVars, dispatch, memberVars>>

ForwardedOps ==
    {"AddProcess", "AddIdentity", "UpdateIdentity", "SetPolicies", "RemoveIdentity"}

\* a mutation on a node that is not the leader: the forwarder's method takes
\* f.client under the lock and sends the request to its address
ForwardMutation ==
    /\ \E op \in ForwardedOps :
           dispatch' = [op |-> op, addr |-> fwdAddress]
    /\ UNCHANGED <<baseVars, restVars, fwdAddress, announced, hasRaftLeader, memberVars>>

NextForwarder ==
    \/ LeaderObservation
    \/ ForwardMutation

SpecForwarder == InitForwarder /\ [][NextForwarder]_vars

----------------------------------------------------------------------------
(* cluster.Leave on node 1 *)

ErrTransfer == "leadership transfer failed"
ErrRemoveServer == "remove server failed"

\* the configurations node 1 starts in as the leader
LeaveConfigs ==
    {{Server(SelfID, SelfAddress)},
     {Server(SelfID, SelfAddress), Server("n2", Addr("n2", 8000))},
     {Server(SelfID, SelfAddress), Server("n2", Addr("n2", 8000)),
      Server("n3", Addr("n3", 8000))}}

\* the ids Leave is called with; the empty id stands for the node itself
LeaveIDs == {"", "n2"}

\* node 1 is the leader and has observed itself as the leader
InitLeave ==
    /\ InitBase
    /\ InitRest
    /\ fwdAddress = APIAddr(SelfAddress)
    /\ announced = {APIAddr(SelfAddress)}
    /\ dispatch = NoDispatch
    /\ hasRaftLeader = TRUE
    /\ obsCh = <<>>
    /\ raftConfig \in LeaveConfigs
    /\ leave = NoLeave
    /\ join = NoJoin

\* the check of the number of servers left out
SingleServer_never(servers) == FALSE

\* numPeers <= 1
SingleServer(servers) == Cardinality(servers) <= 1

\* forwarder.Leave: the request goes to the address the forwarder holds
ForwardLeave(rec) ==
    /\ dispatch' = [op |-> "Leave", addr |-> fwdAddress]
    /\ \/ leave' = [rec EXCEPT !.pc = "done", !.ret = ErrUpstream, !.forwarded = TRUE]
       \/ leave' = [rec EXCEPT !.pc = "waitRemoved", !.forwarded = TRUE]

\* cluster.Leave up to its first wait
LeaveStart ==
    /\ leave.pc \in {"idle", "done"}
    /\ \E arg \in LeaveIDs :
         LET id == IF arg = "" THEN SelfID ELSE arg
             rec == [NoLeave EXCEPT !.id = id, !.leader = isRaftLeader,
                                    !.servers = raftConfig]
         IN
         IF ~isRaftLeader
         THEN \* tell the leader to remove the node
              /\ ForwardLeave(rec)
              /\ UNCHANGED <<baseVars, restVars, fwdAddress, announced, hasRaftLeader,
                             obsCh, raftConfig, join>>
         ELSE IF id = SelfID
         THEN IF SingleServer(raftConfig)
              THEN \* the only server of the cluster: nothing is done
                   /\ leave' = [rec EXCEPT !.pc = "done"]
                   /\ UNCHANGED <<baseVars, restVars, fwdVars, obsCh, raftConfig, join>>
              ELSE \/ \* leadershipTransfer fails
                      /\ leave' = [rec EXCEPT !.pc = "done", !.ret = ErrTransfer,
                                              !.transferred = TRUE]
                      /\ UNCHANGED <<baseVars, restVars, fwdVars, obsCh, raftConfig, join>>
                   \/ \* leadership goes to another server, which Raft announces,
                      \* possibly after announcing that there is no leader; or
                      \* the election that follows gives no leader
                      /\ leave' = [rec EXCEPT !.pc = "waitLeader", !.transferred = TRUE]
                      /\ isRaftLeader' = FALSE
                      /\ \E s \in {x \in raftConfig : x.id # SelfID} :
                             \E obs \in {<<s.address>>, <<NoAddress, s.address>>,
                                          <<NoAddress>>} :
                                 obsCh' = obsCh \o obs
                      /\ UNCHANGED <<storeVars, raftVars, snap, isDegraded, call, restVars,
                                     fwdVars, raftConfig, join>>
         ELSE \* RemoveNode submits removeNode, then RemoveServer
              /\ \/ /\ leave' = [rec EXCEPT !.pc = "done", !.ret = ErrRemoveServer,
                                             !.submitted = TRUE, !.removed = TRUE]
                    /\ UNCHANGED raftConfig
                 \/ /\ leave' = [rec EXCEPT !.pc = "done", !.submitted = TRUE,
                                             !.removed = TRUE]
                    /\ raftConfig' = {s \in raftConfig : s.id # id}
              /\ UNCHANGED <<baseVars, restVars, fwdVars, obsCh, join>>

\* the wait for the new leader election: the loop ends when hasRaftLeader is set
LeaveWaitLeader ==
    /\ leave.pc = "waitLeader"
    /\ hasRaftLeader
    /\ leave' = [leave EXCEPT !.pc = "forward"]
    /\ UNCHANGED <<baseVars, restVars, fwdVars, obsCh, raftConfig, join>>

\* tell the new leader to remove us
LeaveForward ==
    /\ leave.pc = "forward"
    /\ ForwardLeave(leave)
    /\ UNCHANGED <<baseVars, restVars, fwdAddress, announced, hasRaftLeader, obsCh,
                   raftConfig, join>>

\* the wait for being removed from the configuration ends, by the removal or
\* by the grace period
LeaveWaitRemoved ==
    /\ leave.pc = "waitRemoved"
    /\ leave' = [leave EXCEPT !.pc = "done"]
    /\ UNCHANGED <<baseVars, restVars, fwdVars, obsCh, raftConfig, join>>

\* cluster.trackLeaderChanges reads the next leader observation
TrackLeaderChange ==
    /\ obsCh # <<>>
    /\ ObserveLeader(Head(obsCh))
    /\ obsCh' = Tail(obsCh)
    /\ UNCHANGED <<baseVars, restVars, dispatch, raftConfig, leave, join>>

\* the leader that received the forwarded Leave removes the server
RemoteLeave ==
    /\ dispatch.op = "Leave"
    /\ dispatch.addr \notin {NoAddress, APIAddr(SelfAddress)}
    /\ \E s \in raftConfig : s.id = leave.id
    /\ raftConfig' = {s \in raftConfig : s.id # leave.id}
    /\ UNCHANGED <<baseVars, restVars, fwdVars, obsCh, leave, join>>

NextLeave ==
    \/ LeaveStart
    \/ LeaveWaitLeader
    \/ LeaveForward
    \/ LeaveWaitRemoved
    \/ TrackLeaderChange
    \/ RemoteLeave

SpecLeave == InitLeave /\ [][NextLeave]_vars

\* the goroutine of Leave takes its next step, trackLeaderChanges reads the
\* observations, and the leader serves the request it was sent
SpecLeaveFair ==
    /\ SpecLeave
    /\ WF_vars(LeaveWaitLeader)
    /\ WF_vars(LeaveForward)
    /\ WF_vars(LeaveWaitRemoved)
    /\ WF_vars(TrackLeaderChange)
    /\ WF_vars(RemoteLeave)

----------------------------------------------------------------------------
(* cluster.Join on node 1 *)

ErrRemoveExisting == "error removing existing node"
ErrAddVoter == "add voter failed"

\* the nodes that ask to join
JoinIDs == {"n2", "n3"}

JoinRaftAddresses == {Addr("n1", 8000), Addr("n2", 8000), Addr("n3", 8000)}

\* node 1 is the leader of one of the configurations
InitJoin ==
    /\ InitBase
    /\ InitRest
    /\ fwdAddress = APIAddr(SelfAddress)
    /\ announced = {APIAddr(SelfAddress)}
    /\ dispatch = NoDispatch
    /\ hasRaftLeader = TRUE
    /\ obsCh = <<>>
    /\ raftConfig \in LeaveConfigs
    /\ leave = NoLeave
    /\ join = NoJoin

\* a server with both the id and the address
AlreadyMember(servers, id, address) ==
    \E srv \in servers : srv.id = id /\ srv.address = address

\* the servers with the id only
Matching_idOnly(servers, id, address) ==
    {srv \in servers : srv.id = id}

\* the servers with either the joining node's id or its address
Matching(servers, id, address) ==
    {srv \in servers : srv.id = id \/ srv.address = address}

\* cluster.Join
Join ==
    \E id \in JoinIDs, address \in JoinRaftAddresses :
      LET rec == [NoJoin EXCEPT !.done = TRUE, !.id = id, !.address = address,
                                !.leader = isRaftLeader, !.before = raftConfig,
                                !.after = raftConfig]
          m == Matching(raftConfig, id, address)
      IN
      IF ~isRaftLeader
      THEN \* not leader, forwarding to leader
           /\ dispatch' = [op |-> "Join", addr |-> fwdAddress]
           /\ \E ret \in {ErrNil, ErrUpstream} : join' = [rec EXCEPT !.ret = ret]
           /\ UNCHANGED <<baseVars, restVars, fwdAddress, announced, hasRaftLeader, obsCh,
                          raftConfig, leave>>
      ELSE IF AlreadyMember(raftConfig, id, address)
      THEN \* node is already member of cluster, ignoring join request
           /\ join' = rec
           /\ UNCHANGED <<baseVars, restVars, fwdVars, obsCh, raftConfig, leave>>
      ELSE \/ \* a RemoveServer fails after the servers of removed are gone
              /\ \E removed \in (SUBSET m) \ {m} :
                     /\ raftConfig' = raftConfig \ removed
                     /\ join' = [rec EXCEPT !.ret = ErrRemoveExisting,
                                            !.removed = removed,
                                            !.after = raftConfig \ removed]
                     /\ isRaftLeader' = (\A srv \in removed : srv.id # SelfID)
              /\ UNCHANGED <<storeVars, raftVars, snap, isDegraded, call, restVars, fwdVars,
                             obsCh, leave>>
           \/ \* AddVoter fails; it does when the leader has removed itself
              /\ raftConfig' = raftConfig \ m
              /\ join' = [rec EXCEPT !.ret = ErrAddVoter, !.removed = m,
                                     !.addVoter = TRUE, !.after = raftConfig \ m]
              /\ isRaftLeader' = (\A srv \in m : srv.id # SelfID)
              /\ UNCHANGED <<storeVars, raftVars, snap, isDegraded, call, restVars, fwdVars,
                             obsCh, leave>>
           \/ \* AddVoter succeeds, AddNode submits addNode, its error is logged
              /\ \A srv \in m : srv.id # SelfID
              /\ raftConfig' = (raftConfig \ m) \cup {Server(id, address)}
              /\ join' = [rec EXCEPT !.removed = m, !.addVoter = TRUE,
                                     !.added = TRUE, !.submitted = TRUE,
                                     !.after = (raftConfig \ m) \cup {Server(id, address)}]
              /\ UNCHANGED <<baseVars, restVars, fwdVars, obsCh, leave>>

NextJoin ==
    \/ Join

SpecJoin == InitJoin /\ [][NextJoin]_vars

----------------------------------------------------------------------------
(* The emergency-leader sentinel; durations and times in seconds *)

\* the wall clock stops at MaxWallClock
MaxWallClock == 24

\* 10*time.Second
EmergencyThreshold == 10

\* the ticker fires every second; a tick the sentinel handles comes this long
\* after the one before
TickSteps == {1, 6}

Never == [kind |-> "never", d |-> 0]

\* a last_contact that time.ParseDuration does not parse
Unparsed == [kind |-> "unparsed", d |-> 0]

Duration(d) == [kind |-> "duration", d |-> d]

\* the values of stats["last_contact"]
LastContacts == {Never, Unparsed} \cup {Duration(d) : d \in {0, 10, 11, 30}}

\* lastContactSince as the tick computes it from last_contact
LastContactSince(lastContact, start, t) ==
    IF lastContact.kind = "duration" THEN lastContact.d ELSE t - start

\* the signal a tick sends, by the two branches of its if
Signal_noHysteresis(lastContactSince, isEmergencyLeader) ==
    IF lastContactSince > EmergencyThreshold THEN "true"
    ELSE IF isEmergencyLeader THEN "false"
    ELSE "none"

Signal(lastContactSince, isEmergencyLeader) ==
    IF lastContactSince > EmergencyThreshold /\ ~isEmergencyLeader THEN "true"
    ELSE IF lastContactSince <= EmergencyThreshold /\ isEmergencyLeader THEN "false"
    ELSE "none"

\* one tick of cluster.sentinel
SentinelTick ==
    /\ \E step \in TickSteps, lastContact \in LastContacts :
           /\ wallClock + step <= MaxWallClock
           /\ wallClock' = wallClock + step
           /\ LET since == LastContactSince(lastContact, sentinel.start, wallClock')
                  sig == Signal(since, sentinel.isEmergencyLeader)
              IN
              /\ sentinel' =
                     [start |-> IF lastContact.kind = "duration"
                                THEN wallClock' ELSE sentinel.start,
                      isEmergencyLeader |->
                          IF sig = "true" THEN TRUE
                          ELSE IF sig = "false" THEN FALSE
                          ELSE sentinel.isEmergencyLeader,
                      tick |-> [ticked |-> TRUE, lastContactSince |-> since,
                                was |-> sentinel.isEmergencyLeader, signal |-> sig]]
              /\ raftEmergencyNotifyCh' =
                     IF sig = "none" THEN raftEmergencyNotifyCh
                     ELSE Append(raftEmergencyNotifyCh, sig = "true")
    /\ UNCHANGED <<baseVars, fwdVars, memberVars, indexVars, proxyVars>>

NextSentinel ==
    \/ SentinelTick

SpecSentinel == InitIdle /\ [][NextSentinel]_vars

----------------------------------------------------------------------------
(* The file index of the cluster; times in seconds *)

\* the wall clock stops at MaxIndexTime
MaxIndexTime == 3

\* 2*time.Second
FreshWindow == 2

\* the file names the nodes report
Paths == {"srt:a", "srt:b"}

UpdateStates == {"connected", "disconnected"}

\* the node states a node sends at time t, when it has listed its files
Updates(t) ==
    {NodeState(id, st, fs, t) :
        id \in Peers, st \in UpdateStates, fs \in SUBSET Paths}

\* delete(m, k) for every k of ks
DelAll(m, ks) == [x \in (DOMAIN m) \ ks |-> m[x]]

\* m[k], nil when k is not a key; a nil list has no elements
FilesOf(m, k) == IF k \in DOMAIN m THEN m[k] ELSE {}

\* the consumer of cluster.updates processes one node state
ProcessUpdate ==
    /\ \E state \in Updates(wallClock) :
         LET files == FilesOf(idfiles, state.ID)
             cleaned == DelAll(fileid, files)
         IN
         /\ IF state.State = "connected"
            THEN /\ fileid' = [x \in (DOMAIN cleaned) \cup state.Files |->
                                  IF x \in state.Files THEN state.ID ELSE cleaned[x]]
                 /\ idfiles' = Put(Del(idfiles, state.ID), state.ID, files)
                 /\ idupdate' = Put(Del(idupdate, state.ID), state.ID, state.LastUpdate)
            ELSE /\ fileid' = cleaned
                 /\ idfiles' = Del(idfiles, state.ID)
                 /\ idupdate' = Del(idupdate, state.ID)
         /\ processed' = [update |-> state,
                          reported |-> [processed.reported EXCEPT ![state.ID] = state.State]]
    /\ lookup' = NoLookup
    /\ UNCHANGED <<baseVars, fwdVars, memberVars, sentinelVars, proxyVars, nodes>>

\* cluster.AddNodeX with a node that answers and has another id than ours;
\* a node that is registered already is left as it is
AddNodeX ==
    /\ \E id \in Peers : nodes' = nodes \cup {id}
    /\ lookup' = NoLookup
    /\ UNCHANGED <<baseVars, fwdVars, memberVars, sentinelVars, proxyVars,
                   fileid, idfiles, idupdate, processed>>

\* cluster.RemoveNodeX: the node leaves the registry, the index is not
\* touched; then Leave("", id), whose error is dropped: a node that is not
\* the leader forwards it, the leader submits removeNode and calls RemoveServer
RemoveNodeX ==
    /\ \E id \in nodes :
         LET rec == [NoLeave EXCEPT !.id = id, !.leader = isRaftLeader,
                                    !.servers = raftConfig]
         IN
         /\ nodes' = nodes \ {id}
         /\ IF ~isRaftLeader
            THEN /\ ForwardLeave(rec)
                 /\ UNCHANGED raftConfig
            ELSE /\ UNCHANGED dispatch
                 /\ leave' = [rec EXCEPT !.pc = "done", !.submitted = TRUE,
                                         !.removed = TRUE]
                 /\ raftConfig' = {s \in raftConfig : s.id # id}
    /\ lookup' = NoLookup
    /\ UNCHANGED <<baseVars, fwdAddress, announced, hasRaftLeader, obsCh, join,
                   sentinelVars, proxyVars, fileid, idfiles, idupdate, processed>>

\* the freshness check left out
TooOld_never(age) == FALSE

\* time.Since(ts) > 2*time.Second
TooOld(age) == age > FreshWindow

\* GetURL and GetFile up to the call of the node: the node the path leads to
\* when every check passes, "" otherwise
LookupNode(path) ==
    IF path \notin DOMAIN fileid THEN ""
    ELSE IF fileid[path] \notin DOMAIN idupdate THEN ""
    ELSE IF TooOld(wallClock - idupdate[fileid[path]]) THEN ""
    ELSE IF fileid[path] \notin nodes THEN ""
    ELSE fileid[path]

\* what a call of GetURL or GetFile returned; ok: the node has returned no
\* error
Looked(op, path, ok) ==
    [op |-> op, path |-> path, found |-> LookupNode(path) # "" /\ ok]

GetURL ==
    /\ \E path \in Paths, ok \in BOOLEAN : lookup' = Looked("GetURL", path, ok)
    /\ UNCHANGED <<baseVars, fwdVars, memberVars, sentinelVars, proxyVars,
                   nodes, fileid, idfiles, idupdate, processed>>

GetFile ==
    /\ \E path \in Paths, ok \in BOOLEAN : lookup' = Looked("GetFile", path, ok)
    /\ UNCHANGED <<baseVars, fwdVars, memberVars, sentinelVars, proxyVars,
                   nodes, fileid, idfiles, idupdate, processed>>

\* a second passes
IndexSecond ==
    /\ wallClock < MaxIndexTime
    /\ wallClock' = wallClock + 1
    /\ lookup' = NoLookup
    /\ UNCHANGED <<baseVars, fwdVars, memberVars, sentinel, raftEmergencyNotifyCh,
                   nodes, fileid, idfiles, idupdate, processed, proxyVars>>

NextIndex ==
    \/ ProcessUpdate
    \/ AddNodeX
    \/ RemoveNodeX
    \/ GetURL
    \/ GetFile
    \/ IndexSecond

SpecIndex == InitIdle /\ [][NextIndex]_vars

----------------------------------------------------------------------------
(* The SRT server: subscribers of one resource that is published on another
   node.  p.listeners is a uint64: a negative n stands for 2^64 + n, so that
   ++ and -- are +1 and -1 *)

\* a proxy and the goroutine that publishes its upstream; ended: the upstream
\* has ended by itself; g: where the goroutine stands
NewProxy == [listeners |-> 0, open |-> TRUE, ended |-> FALSE, g |-> "publishing"]

\* the lock is taken whoever holds it
LockFree_always(l) == TRUE

\* server.lock can be taken
LockFree(l) == l = Unlocked

\* p.listeners <= 0 on a uint64
NoListeners(n) == n = 0

\* the subscriber has added itself to p.listeners and not yet taken itself off
Attached(s) == subscriber[s].pc \in {"subscribed", "decRead", "decWrite"}

\* what the SRT server leaves alone
otherVars == <<baseVars, fwdVars, memberVars, sentinelVars, indexVars>>

\* handleSubscribe: no channel of the resource is published here;
\* s.lock.Lock()
SubscribeLock(s) ==
    /\ subscriber[s].pc = "idle"
    /\ LockFree(srtLock)
    /\ srtLock' = s
    /\ subscriber' = [subscriber EXCEPT ![s].pc = "locked"]
    /\ UNCHANGED <<proxy, proxies>>
    /\ UNCHANGED otherVars

\* p := s.proxy[si.resource]
SubscribeLookup(s) ==
    /\ subscriber[s].pc = "locked"
    /\ subscriber' = [subscriber EXCEPT ![s].p = proxy, ![s].found = proxy,
                          ![s].pc = IF proxy = NilProxy THEN "dial" ELSE "unlock"]
    /\ UNCHANGED <<srtLock, proxy, proxies>>
    /\ UNCHANGED otherVars

\* p == nil: GetURL, UnmarshalURL or srt.Dial fails and handleSubscribe
\* returns, with server.lock still held; or the upstream is dialled, the
\* goroutine started and the proxy stored
SubscribeDial(s) ==
    /\ subscriber[s].pc = "dial"
    /\ \/ /\ subscriber' = [subscriber EXCEPT ![s].pc = "done"]
          /\ UNCHANGED <<proxy, proxies>>
       \/ /\ proxies' = Append(proxies, NewProxy)
          /\ proxy' = Len(proxies) + 1
          /\ subscriber' = [subscriber EXCEPT ![s].p = Len(proxies) + 1,
                                ![s].dialled = TRUE, ![s].pc = "unlock"]
    /\ UNCHANGED srtLock
    /\ UNCHANGED otherVars

\* s.lock.Unlock()
SubscribeUnlock(s) ==
    /\ subscriber[s].pc = "unlock"
    /\ srtLock' = Unlocked
    /\ subscriber' = [subscriber EXCEPT ![s].pc = "incRead"]
    /\ UNCHANGED <<proxy, proxies>>
    /\ UNCHANGED otherVars

\* p.listeners++, which no lock guards: the read
ListenersIncRead(s) ==
    /\ subscriber[s].pc = "incRead"
    /\ subscriber' = [subscriber EXCEPT ![s].reg = proxies[subscriber[s].p].listeners,
                          ![s].pc = "incWrite"]
    /\ UNCHANGED <<srtLock, proxy, proxies>>
    /\ UNCHANGED otherVars

\* p.listeners++: the write; then p.pubsub.Subscribe(conn) blocks
ListenersIncWrite(s) ==
    /\ subscriber[s].pc = "incWrite"
    /\ proxies' = [proxies EXCEPT ![subscriber[s].p].listeners = subscriber[s].reg + 1]
    /\ subscriber' = [subscriber EXCEPT ![s].pc = "subscribed"]
    /\ UNCHANGED <<srtLock, proxy>>
    /\ UNCHANGED otherVars

\* Subscribe returns, the connection or the pubsub has closed; p.listeners--:
\* the read
ListenersDecRead(s) ==
    /\ subscriber[s].pc = "subscribed"
    /\ subscriber' = [subscriber EXCEPT ![s].reg = proxies[subscriber[s].p].listeners,
                          ![s].pc = "decWrite"]
    /\ UNCHANGED <<srtLock, proxy, proxies>>
    /\ UNCHANGED otherVars

\* p.listeners--: the write
ListenersDecWrite(s) ==
    /\ subscriber[s].pc = "decWrite"
    /\ proxies' = [proxies EXCEPT ![subscriber[s].p].listeners = subscriber[s].reg - 1]
    /\ subscriber' = [subscriber EXCEPT ![s].pc = "check"]
    /\ UNCHANGED <<srtLock, proxy>>
    /\ UNCHANGED otherVars

\* if p.listeners <= 0 { p.publisher.Close() }
SubscribeEnd(s) ==
    /\ subscriber[s].pc = "check"
    /\ proxies' = [proxies EXCEPT ![subscriber[s].p].open =
                       IF NoListeners(proxies[subscriber[s].p].listeners) THEN FALSE ELSE @]
    /\ subscriber' = [subscriber EXCEPT ![s].pc = "done"]
    /\ UNCHANGED <<srtLock, proxy>>
    /\ UNCHANGED otherVars

\* the upstream ends by itself
UpstreamEnds(i) ==
    /\ proxies[i].g = "publishing"
    /\ proxies[i].open
    /\ ~proxies[i].ended
    /\ proxies' = [proxies EXCEPT ![i].ended = TRUE]
    /\ UNCHANGED <<srtLock, proxy, subscriber>>
    /\ UNCHANGED otherVars

\* the goroutine: Publish returns when the upstream has ended or was closed;
\* p.publisher.Close()
PublishReturns(i) ==
    /\ proxies[i].g = "publishing"
    /\ proxies[i].ended \/ ~proxies[i].open
    /\ proxies' = [proxies EXCEPT ![i].open = FALSE, ![i].g = "closed"]
    /\ UNCHANGED <<srtLock, proxy, subscriber>>
    /\ UNCHANGED otherVars

\* the goroutine: s.lock.Lock(); delete(s.proxy, resource); s.lock.Unlock()
ProxyDelete(i) ==
    /\ proxies[i].g = "closed"
    /\ LockFree(srtLock)
    /\ proxy' = NilProxy
    /\ proxies' = [proxies EXCEPT ![i].g = "deleted"]
    /\ UNCHANGED <<srtLock, subscriber>>
    /\ UNCHANGED otherVars

NextProxy ==
    \/ \E s \in Subscribers : SubscribeLock(s)
    \/ \E s \in Subscribers : SubscribeLookup(s)
    \/ \E s \in Subscribers : SubscribeDial(s)
    \/ \E s \in Subscribers : SubscribeUnlock(s)
    \/ \E s \in Subscribers : ListenersIncRead(s)
    \/ \E s \in Subscribers : ListenersIncWrite(s)
    \/ \E s \in Subscribers : ListenersDecRead(s)
    \/ \E s \in Subscribers : ListenersDecWrite(s)
    \/ \E s \in Subscribers : SubscribeEnd(s)
    \/ \E i \in DOMAIN proxies : UpstreamEnds(i)
    \/ \E i \in DOMAIN proxies : PublishReturns(i)
    \/ \E i \in DOMAIN proxies : ProxyDelete(i)

SpecProxy == InitIdle /\ [][NextProxy]_vars

----------------------------------------------------------------------------
(* The SRT server: publishers of one resource on this node, next to one
   subscriber of another resource, which no connection publishes here; the
   two share server.lock *)

\* what handlePublish leaves alone
publishFrame == <<coreVars, proxy, proxies, subscriber, peer, shutdown, iam, lastVars>>

\* handlePublish: s.lock.Lock()
PublishLock(p) ==
    /\ publish.pc[p] = "idle"
    /\ LockFree(srtLock)
    /\ srtLock' = p
    /\ publish' = [publish EXCEPT !.pc[p] = "locked"]
    /\ UNCHANGED publishFrame

\* ch := s.channels[si.resource]; without a channel the publisher's new
\* channel is stored; s.lock.Unlock()
PublishStore(p) ==
    /\ publish.pc[p] = "locked"
    /\ publish.channel = NoChannel
    /\ srtLock' = Unlocked
    /\ publish' = [publish EXCEPT !.channel = p, !.pc[p] = "publishing"]
    /\ UNCHANGED publishFrame

\* with a channel: s.lock.Unlock(), the connection is closed as a conflict
PublishConflict(p) ==
    /\ publish.pc[p] = "locked"
    /\ publish.channel # NoChannel
    /\ srtLock' = Unlocked
    /\ publish' = [publish EXCEPT !.pc[p] = "conflict"]
    /\ UNCHANGED publishFrame

\* ch.pubsub.Publish(conn) returns: the publisher's connection has ended
PublishEnds(p) ==
    /\ publish.pc[p] = "publishing"
    /\ publish' = [publish EXCEPT !.pc[p] = "ended"]
    /\ UNCHANGED <<publishFrame, srtLock>>

\* s.lock.Lock(); delete(s.channels, si.resource); s.lock.Unlock(); the
\* channel and the connection are closed
PublishRemove(p) ==
    /\ publish.pc[p] = "ended"
    /\ LockFree(srtLock)
    /\ publish' = [publish EXCEPT !.channel = NoChannel, !.pc[p] = "closed"]
    /\ UNCHANGED <<publishFrame, srtLock>>

\* the publisher connects again
PublishAgain(p) ==
    /\ publish.pc[p] \in {"conflict", "closed"}
    /\ publish' = [publish EXCEPT !.pc[p] = "idle"]
    /\ UNCHANGED <<publishFrame, srtLock>>

\* the subscriber of this part
OneSubscriber == {1}

NextPublish ==
    \/ \E p \in Publishers : PublishLock(p)
    \/ \E p \in Publishers : PublishStore(p)
    \/ \E p \in Publishers : PublishConflict(p)
    \/ \E p \in Publishers : PublishEnds(p)
    \/ \E p \in Publishers : PublishRemove(p)
    \/ \E p \in Publishers : PublishAgain(p)
    \/ \E s \in OneSubscriber : SubscribeLock(s)
    \/ \E s \in OneSubscriber : SubscribeLookup(s)
    \/ \E s \in OneSubscriber : SubscribeDial(s)
    \/ \E s \in OneSubscriber : SubscribeUnlock(s)
    \/ \E s \in OneSubscriber : ListenersIncRead(s)
    \/ \E s \in OneSubscriber : ListenersIncWrite(s)
    \/ \E s \in OneSubscriber : ListenersDecRead(s)
    \/ \E s \in OneSubscriber : ListenersDecWrite(s)
    \/ \E s \in OneSubscriber : SubscribeEnd(s)
    \/ \E i \in DOMAIN proxies : UpstreamEnds(i)
    \/ \E i \in DOMAIN proxies : PublishReturns(i)
    \/ \E i \in DOMAIN proxies : ProxyDelete(i)

SpecPublish == InitIdle /\ [][NextPublish]_vars

\* the goroutine of a handler that can take its next step takes it, and a
\* goroutine that waits for server.lock gets it when it is free again and
\* again (sync.RWMutex does not starve a waiter)
SpecPublishFair ==
    /\ SpecPublish
    /\ \A p \in Publishers :
           /\ SF_vars(PublishLock(p))
           /\ WF_vars(PublishStore(p))
           /\ WF_vars(PublishConflict(p))
           /\ SF_vars(PublishRemove(p))
    /\ \A s \in OneSubscriber :
           /\ WF_vars(SubscribeLookup(s))
           /\ WF_vars(SubscribeUnlock(s))

----------------------------------------------------------------------------
(* The metrics ticker of a peer node *)

\* the values a peer reports: cpu_ncpu, cpu_idle, mem_total, mem_free
MetricsValues ==
    {[cpu_ncpu |-> n, cpu_idle |-> i, mem_total |-> t, mem_free |-> f] :
        n \in {1, 4}, i \in {0, 25, 100}, t \in {0, 8}, f \in {0, 3}}

\* the locals of the tick when the response names no metric
NoMetrics == [cpu_ncpu |-> 0, cpu_idle |-> 0, mem_total |-> 0, mem_free |-> 0]

\* the sample of a failed query
ErrorSample(r) == [r EXCEPT !.cpu = 100, !.ncpu = 1, !.mem = 0]

\* the sample stored from the response; mem_free is at most mem_total here
Sample(m) ==
    [ncpu |-> m.cpu_ncpu,
     cpu |-> (100 - m.cpu_idle) * m.cpu_ncpu,
     mem |-> IF m.mem_total # 0 THEN m.mem_total - m.mem_free ELSE 0,
     memTotal |-> m.mem_total]

\* what the metrics ticker leaves alone
peerFrame == <<coreVars, proxyVars, publish, shutdown, iam, lastVars>>

\* a tick: n.peer.Metrics answers or fails, and a failure stores the error
\* sample; a failed query answers with an empty response
MetricsQuery ==
    /\ peer.pc = "tick"
    /\ \E err \in BOOLEAN :
         \E m \in (IF err THEN {NoMetrics} ELSE MetricsValues) :
             peer' = [peer EXCEPT !.pc = "store", !.err = err, !.metrics = m,
                                  !.resources = IF err THEN ErrorSample(@) ELSE @]
    /\ UNCHANGED peerFrame

\* the rest of the tick: the sample computed from the response is stored
MetricsStore ==
    /\ peer.pc = "store"
    /\ peer' = [peer EXCEPT !.pc = "tick", !.ticked = TRUE,
                            !.resources = Sample(peer.metrics)]
    /\ UNCHANGED peerFrame

NextPeer ==
    \/ MetricsQuery
    \/ MetricsStore

SpecPeer == InitIdle /\ [][NextPeer]_vars

----------------------------------------------------------------------------
(* cluster.Shutdown, called by several goroutines, next to peers that join *)

shutdownFrame == <<coreVars, proxyVars, publish, peer, iam, lastVars>>

\* cluster.AddNodeX for a peer that has not joined before; it needs c.lock,
\* which Shutdown holds from its loop on
JoinPeer(p) ==
    /\ p \notin shutdown.joined
    /\ \A c \in Callers : shutdown.pc[c] \notin {"stopping", "raft"}
    /\ shutdown' = [shutdown EXCEPT !.nodes = @ \cup {p}, !.joined = @ \cup {p}]
    /\ UNCHANGED shutdownFrame

\* c.shutdownLock.Lock()
ShutdownLock(c) ==
    /\ shutdown.pc[c] = "idle"
    /\ shutdown.lock = NoCaller
    /\ shutdown' = [shutdown EXCEPT !.lock = c, !.pc[c] = "locked", !.ret[c] = "none"]
    /\ UNCHANGED shutdownFrame

\* Shutdown without the check of c.shutdown
ShutdownClose_unchecked(c) ==
    /\ shutdown.pc[c] = "locked"
    /\ shutdown' = [shutdown EXCEPT !.flag = TRUE,
                                    !.events = Append(@, Event("close", "")),
                                    !.pc[c] = "closed"]
    /\ UNCHANGED shutdownFrame

\* if c.shutdown { return nil }, with the deferred unlock; otherwise
\* c.shutdown = true and close(c.shutdownCh)
ShutdownClose(c) ==
    /\ shutdown.pc[c] = "locked"
    /\ IF shutdown.flag
       THEN shutdown' = [shutdown EXCEPT !.lock = NoCaller, !.pc[c] = "done",
                                         !.ret[c] = "nil"]
       ELSE shutdown' = [shutdown EXCEPT !.flag = TRUE,
                                         !.events = Append(@, Event("close", "")),
                                         !.pc[c] = "closed"]
    /\ UNCHANGED shutdownFrame

\* c.lock.Lock() and the start of the loop over c.nodes
ShutdownNodes(c) ==
    /\ shutdown.pc[c] = "closed"
    /\ shutdown' = [shutdown EXCEPT !.todo = shutdown.nodes, !.pc[c] = "stopping"]
    /\ UNCHANGED shutdownFrame

\* node.stop() for the next peer of the loop, in the order of the map's range
ShutdownStop(c, p) ==
    /\ shutdown.pc[c] = "stopping"
    /\ p \in shutdown.todo
    /\ shutdown' = [shutdown EXCEPT !.todo = @ \ {p},
                                    !.events = Append(@, Event("stop", p))]
    /\ UNCHANGED shutdownFrame

\* c.nodes = map[string]*node{} and c.shutdownRaft(): the transport is closed,
\* Raft is shut down, the log store is closed
ShutdownRaft(c) ==
    /\ shutdown.pc[c] = "stopping"
    /\ shutdown.todo = {}
    /\ shutdown' = [shutdown EXCEPT !.nodes = {},
                                    !.events = @ \o <<Event("transport", ""),
                                                      Event("raft", ""),
                                                      Event("store", "")>>,
                                    !.pc[c] = "raft"]
    /\ UNCHANGED shutdownFrame

\* return nil, with the deferred unlocks of c.lock and c.shutdownLock
ShutdownReturn(c) ==
    /\ shutdown.pc[c] = "raft"
    /\ shutdown' = [shutdown EXCEPT !.lock = NoCaller, !.pc[c] = "done",
                                    !.ret[c] = "nil"]
    /\ UNCHANGED shutdownFrame

\* the goroutine calls Shutdown once more
ShutdownAgain(c) ==
    /\ shutdown.pc[c] = "done"
    /\ shutdown' = [shutdown EXCEPT !.pc[c] = "idle"]
    /\ UNCHANGED shutdownFrame

NextShutdown ==
    \/ \E p \in Peers : JoinPeer(p)
    \/ \E c \in Callers : ShutdownLock(c)
    \/ \E c \in Callers : ShutdownClose(c)
    \/ \E c \in Callers : ShutdownNodes(c)
    \/ \E c \in Callers, p \in Peers : ShutdownStop(c, p)
    \/ \E c \in Callers : ShutdownRaft(c)
    \/ \E c \in Callers : ShutdownReturn(c)
    \/ \E c \in Callers : ShutdownAgain(c)

SpecShutdown == InitIdle /\ [][NextShutdown]_vars

----------------------------------------------------------------------------
(* The identity manager: construction from a users file, then calls of
   Create, Update, Remove, Save and Autosave *)

iamFrame == <<coreVars, proxyVars, publish, peer, shutdown, lastVars>>

\* the name of the superuser
Root == <<"r">>

IAMNames == {Root, Alice, Bob}

\* two client IDs of one domain and audience, and a tenant of another domain
\* and audience
TenantA1 == Auth0Tenant("d1", "a", "c1")

TenantA2 == Auth0Tenant("d1", "a", "c2")

TenantB == Auth0Tenant("d", "1a", "c1")

\* the Auth0 logins of the calls
Auth0Logins == {<<"s1", TenantA1>>, <<"s2", TenantA2>>, <<"s2", TenantB>>}

\* the users of the calls: without Auth0 login, with one, and one that does
\* not validate
IAMUsers ==
    {IAMUser(n, FALSE, "", NoAuth0Tenant) : n \in IAMNames}
    \cup {IAMUser(n, TRUE, l[1], l[2]) : n \in IAMNames, l \in Auth0Logins}
    \cup {IAMUser(Alice, TRUE, "", TenantA1)}

\* config.Superuser
Superusers == {IAMUser(Root, FALSE, "", NoAuth0Tenant), IAMUser(Root, TRUE, "s1", TenantA1)}

UsersFile(users, exists) == [users |-> users, exists |-> exists]

\* users.json when the manager is constructed: absent, or written by an
\* earlier run, also one with another superuser
UsersFiles ==
    {UsersFile({}, FALSE),
     UsersFile({IAMUser(Alice, TRUE, "s2", TenantA1)}, TRUE),
     UsersFile({IAMUser(Root, FALSE, "", NoAuth0Tenant)}, TRUE),
     UsersFile({IAMUser(Alice, TRUE, "s2", TenantA2), IAMUser(Bob, TRUE, "s1", TenantA1)}, TRUE)}

\* the lists whose elements are those of the set S, each once
Orders(S) ==
    {q \in [1..Cardinality(S) -> S] : \A x \in S : \E i \in DOMAIN q : q[i] = x}

IAMCall(op, name, user, err) ==
    [op |-> op, name |-> name, user |-> user, err |-> err, pre |-> Unwritten(iam.im)]

\* NewIdentityManager: the users file is loaded, then the superuser is created
NewIdentityManager ==
    /\ ~iam.built
    /\ \E su \in Superusers, f \in UsersFiles, net \in BOOLEAN :
       \E users \in Orders(f.users), nets \in [1..Cardinality(f.users) -> BOOLEAN] :
           LET l == load(EmptyManager, users, nets)
               r == create(l.m, [su EXCEPT !.Superuser = TRUE], net)
           IN
           IF l.err # ErrNil
           THEN iam' = [built |-> FALSE, im |-> NoManager,
                        call |-> IAMCall("New", <<>>, su, l.err)]
           ELSE IF r.err # ErrNil
           THEN iam' = [built |-> FALSE, im |-> NoManager,
                        call |-> IAMCall("New", <<>>, su, r.err)]
           ELSE iam' = [built |-> TRUE,
                        im |-> Collected([r.m EXCEPT !.root = r.identity]),
                        call |-> IAMCall("New", <<>>, su, ErrNil)]
    /\ UNCHANGED iamFrame

CallCreate ==
    /\ iam.built
    /\ \E u \in IAMUsers, net \in BOOLEAN :
           LET r == Create(Unwritten(iam.im), u, net) IN
           iam' = [iam EXCEPT !.im = Collected(r.m),
                              !.call = IAMCall("Create", u.Name, u, r.err)]
    /\ UNCHANGED iamFrame

CallUpdate ==
    /\ iam.built
    /\ \E name \in IAMNames, u \in IAMUsers, net \in BOOLEAN, net2 \in BOOLEAN :
           LET r == Update(Unwritten(iam.im), name, u, net, net2) IN
           iam' = [iam EXCEPT !.im = Collected(r.m),
                              !.call = IAMCall("Update", name, u, r.err)]
    /\ UNCHANGED iamFrame

\* identityManager.Remove
CallRemove ==
    /\ iam.built
    /\ \E name \in IAMNames :
           LET r == remove(Unwritten(iam.im), name) IN
           iam' = [iam EXCEPT !.im = Collected(r.m),
                              !.call = IAMCall("Remove", name, NilIdentity.user, r.err)]
    /\ UNCHANGED iamFrame

\* identityManager.Save
CallSave ==
    /\ iam.built
    /\ iam' = [iam EXCEPT !.im = save(Unwritten(iam.im)),
                          !.call = IAMCall("Save", <<>>, NilIdentity.user, ErrNil)]
    /\ UNCHANGED iamFrame

\* identityManager.Autosave
CallAutosave ==
    /\ iam.built
    /\ \E auto \in BOOLEAN :
           iam' = [iam EXCEPT !.im = [Unwritten(iam.im) EXCEPT !.autosave = auto],
                              !.call = IAMCall("Autosave", <<>>, NilIdentity.user, ErrNil)]
    /\ UNCHANGED iamFrame

NextIAM ==
    \/ NewIdentityManager
    \/ CallCreate
    \/ CallUpdate
    \/ CallRemove
    \/ CallSave
    \/ CallAutosave

SpecIAM == InitIdle /\ [][NextIAM]_vars

----------------------------------------------------------------------------
(* The limiter of a process: Start, Stop, the ticker's collect, Limit and the
   goroutines of limiter.limit *)

limiterFrame == <<coreVars, proxyVars, publish, peer, shutdown, iam, runtime>>

\* a goroutine of limiter.limit: where it stands and whether its context is
\* cancelled
Loop(pc, cancelled) == [pc |-> pc, cancelled |-> cancelled]

\* no goroutine has called a method of the nil l.proc, which panics
Alive == \A i \in DOMAIN limiter.loops : limiter.loops[i].pc # "panic"

\* NewLimiter
NewLimiter ==
    /\ ~limiter.built
    /\ \E mode \in {LimitModeHard, LimitModeSoft} :
           limiter' = [limiter EXCEPT !.built = TRUE, !.mode = mode,
                                      !.call = [NoLimiterCall EXCEPT !.op = "New"]]
    /\ UNCHANGED limiterFrame

\* limiter.Start: l.proc is set and the ticker is started
LimiterStart ==
    /\ limiter.built /\ Alive
    /\ limiter' = IF limiter.proc
                  THEN [limiter EXCEPT !.call = [NoLimiterCall EXCEPT !.op = "Start"]]
                  ELSE [limiter EXCEPT !.proc = TRUE, !.ticker = TRUE,
                                       !.cleared = FALSE,
                                       !.call = [NoLimiterCall EXCEPT !.op = "Start"]]
    /\ UNCHANGED limiterFrame

\* limiter.Stop: l.cancel(), l.proc.Stop(), l.proc = nil; l.cancelLimit is
\* left alone
LimiterStop ==
    /\ limiter.built /\ Alive
    /\ limiter' = IF ~limiter.proc
                  THEN [limiter EXCEPT !.call = [NoLimiterCall EXCEPT !.op = "Stop"]]
                  ELSE [limiter EXCEPT !.proc = FALSE, !.ticker = FALSE,
                                       !.cleared = TRUE,
                                       !.call = [NoLimiterCall EXCEPT !.op = "Stop"]]
    /\ UNCHANGED limiterFrame

\* limiter.collect: isLimitExceeded; over says that a current value is above
\* its limit, waited that it has been for l.waitFor
Exceeded(mode, enableLimit, over, waited) ==
    IF mode = LimitModeHard THEN over /\ waited
    ELSE enableLimit /\ over

\* a tick of the ticker: limiter.collect, which starts onLimit when a limit is
\* exceeded
Collect ==
    /\ limiter.built /\ Alive
    /\ limiter.ticker
    /\ limiter.proc
    /\ \E over \in BOOLEAN, waited \in BOOLEAN :
           limiter' = [limiter EXCEPT !.call =
               [op |-> "collect", enable |-> FALSE,
                onLimit |-> Exceeded(limiter.mode, limiter.enableLimit, over, waited)]]
    /\ UNCHANGED limiterFrame

\* limiter.Limit(false): l.cancelLimit() and l.cancelLimit = nil
LimitOff(l) ==
    IF ~l.enableLimit THEN l
    ELSE IF l.cancelLimit = 0 THEN l
    ELSE [l EXCEPT !.loops[l.cancelLimit].cancelled = TRUE, !.cancelLimit = 0]

\* limiter.Limit(true): a loop is started unless l.enableLimit is set
LimitOn(l) ==
    IF l.enableLimit THEN l
    ELSE LET c == IF l.cancelLimit = 0 THEN l
                  ELSE [l EXCEPT !.loops[l.cancelLimit].cancelled = TRUE]
         IN [c EXCEPT !.loops = Append(@, Loop("select", FALSE)),
                      !.cancelLimit = Len(l.loops) + 1,
                      !.enableLimit = TRUE]

\* limiter.Limit
Limit ==
    /\ limiter.built /\ Alive
    /\ \E enable \in BOOLEAN :
           /\ enable => Len(limiter.loops) < MaxLoops
           /\ limiter' = [(IF enable THEN LimitOn(limiter) ELSE LimitOff(limiter))
                             EXCEPT !.want = enable,
                                    !.call = [op |-> "Limit", enable |-> enable,
                                              onLimit |-> FALSE]]
    /\ UNCHANGED limiterFrame

\* the select of limiter.limit: the loop returns when its context is
\* cancelled, otherwise it reads l.cpuCurrent under l.lock
LoopSelect(i) ==
    /\ Alive
    /\ i \in DOMAIN limiter.loops
    /\ limiter.loops[i].pc = "select"
    /\ limiter' = [limiter EXCEPT !.loops[i].pc =
                      IF limiter.loops[i].cancelled THEN "done" ELSE "resume"]
    /\ UNCHANGED limiterFrame

\* l.proc.Resume(), l.proc read without l.lock: a call on the nil l.proc panics
LoopResume(i) ==
    /\ Alive
    /\ i \in DOMAIN limiter.loops
    /\ limiter.loops[i].pc = "resume"
    /\ limiter' = IF ~limiter.proc
                  THEN [limiter EXCEPT !.loops[i].pc = "panic"]
                  ELSE [limiter EXCEPT !.loops[i].pc = "work", !.suspended = FALSE,
                                       !.action = "Resume"]
    /\ UNCHANGED limiterFrame

\* after the work time: l.proc.Suspend() if there is time to sleep
LoopSuspend(i) ==
    /\ Alive
    /\ i \in DOMAIN limiter.loops
    /\ limiter.loops[i].pc = "work"
    /\ \E sleeps \in BOOLEAN :
           limiter' = IF ~sleeps THEN [limiter EXCEPT !.loops[i].pc = "select"]
                      ELSE IF ~limiter.proc
                      THEN [limiter EXCEPT !.loops[i].pc = "panic"]
                      ELSE [limiter EXCEPT !.loops[i].pc = "sleep",
                                           !.suspended = TRUE, !.action = "Suspend"]
    /\ UNCHANGED limiterFrame

\* the sleep time is over
LoopWake(i) ==
    /\ Alive
    /\ i \in DOMAIN limiter.loops
    /\ limiter.loops[i].pc = "sleep"
    /\ limiter' = [limiter EXCEPT !.loops[i].pc = "select"]
    /\ UNCHANGED limiterFrame

NextLimiter ==
    \/ NewLimiter
    \/ LimiterStart
    \/ LimiterStop
    \/ Collect
    \/ Limit
    \/ \E i \in 1..MaxLoops : LoopSelect(i)
    \/ \E i \in 1..MaxLoops : LoopResume(i)
    \/ \E i \in 1..MaxLoops : LoopSuspend(i)
    \/ \E i \in 1..MaxLoops : LoopWake(i)

SpecLimiter == InitIdle /\ [][NextLimiter]_vars

----------------------------------------------------------------------------
(* The locks of a peer node: peerLock guards n.peer, stateLock the state,
   the file list and lastContact.  A goroutine that stands in Lock() keeps
   new readers out, as sync.RWMutex does *)

\* what the goroutines of a peer node leave alone
runtimeFrame == <<coreVars, proxyVars, publish, peer, shutdown, iam, limiter>>

\* RLock returns: nobody stands in Lock()
CanRLock(l) == l.waiting = {}

\* Lock returns: no read lock is held
CanLock(l) == \A h \in Holders : l.readers[h] = 0

RLock(l, h) == [l EXCEPT !.readers[h] = @ + 1]

RUnlock(l, h) == [l EXCEPT !.readers[h] = @ - 1]

\* the goroutine stands in Lock()
Lock(l, h) == [l EXCEPT !.waiting = @ \cup {h}]

\* Lock has returned, the writes are made, Unlock()
Unlock(l, h) == [l EXCEPT !.waiting = @ \ {h}]

\* the clock of the node goes on
RuntimeAdvance ==
    /\ runtime.now < MaxContact
    /\ runtime' = [runtime EXCEPT !.now = @ + 1]
    /\ UNCHANGED runtimeFrame

\* a caller enters About()
CallAbout ==
    /\ runtime.pc["caller"] = "idle"
    /\ runtime' = [runtime EXCEPT !.pc["caller"] = "A.rlockPeer", !.fn["caller"] = "About"]
    /\ UNCHANGED runtimeFrame

\* a caller enters Files()
CallFiles ==
    /\ runtime.pc["caller"] = "idle"
    /\ runtime' = [runtime EXCEPT !.pc["caller"] = "F.rlockState", !.fn["caller"] = "Files"]
    /\ UNCHANGED runtimeFrame

\* Files: n.stateLock.RLock(), held to the return; then n.About()
FilesStateRLock(t) ==
    /\ runtime.pc[t] = "F.rlockState"
    /\ CanRLock(runtime.stateLock)
    /\ runtime' = [runtime EXCEPT !.stateLock = RLock(@, t), !.pc[t] = "A.rlockPeer"]
    /\ UNCHANGED runtimeFrame

\* About: n.peerLock.RLock()
AboutPeerRLock(t) ==
    /\ runtime.pc[t] = "A.rlockPeer"
    /\ CanRLock(runtime.peerLock)
    /\ runtime' = [runtime EXCEPT !.peerLock = RLock(@, t), !.pc[t] = "A.peer"]
    /\ UNCHANGED runtimeFrame

\* About: without a peer RUnlock and return NodeAbout{}; otherwise
\* about := n.peer.About(), the read lock held
AboutPeer(t) ==
    /\ runtime.pc[t] = "A.peer"
    /\ runtime' =
         IF runtime.peer
         THEN [runtime EXCEPT !.pc[t] = "A.called"]
         ELSE [runtime EXCEPT !.peerLock = RUnlock(@, t),
                              !.pc[t] = IF runtime.fn[t] = "Files" THEN "F.read" ELSE "idle",
                              !.fn[t] = IF runtime.fn[t] = "Files" THEN @ ELSE ""]
    /\ UNCHANGED runtimeFrame

\* About: n.peerLock.RUnlock()
AboutPeerRUnlock(t) ==
    /\ runtime.pc[t] = "A.called"
    /\ runtime' = [runtime EXCEPT !.peerLock = RUnlock(@, t), !.pc[t] = "A.rlockState"]
    /\ UNCHANGED runtimeFrame

\* About: n.stateLock.RLock()
AboutStateRLock(t) ==
    /\ runtime.pc[t] = "A.rlockState"
    /\ CanRLock(runtime.stateLock)
    /\ runtime' = [runtime EXCEPT !.stateLock = RLock(@, t), !.pc[t] = "A.read"]
    /\ UNCHANGED runtimeFrame

\* About: the state is read; the deferred n.stateLock.RUnlock()
AboutReturn(t) ==
    /\ runtime.pc[t] = "A.read"
    /\ runtime' = [runtime EXCEPT !.stateLock = RUnlock(@, t),
                       !.pc[t] = IF runtime.fn[t] = "Files" THEN "F.read" ELSE "idle",
                       !.fn[t] = IF runtime.fn[t] = "Files" THEN @ ELSE ""]
    /\ UNCHANGED runtimeFrame

\* Files: the list is copied; the deferred n.stateLock.RUnlock(); the files
\* ticker has sent the result and waits for the next tick
FilesReturn(t) ==
    /\ runtime.pc[t] = "F.read"
    /\ runtime' = [runtime EXCEPT !.stateLock = RUnlock(@, t),
                       !.pc[t] = IF t = "files" THEN "tick" ELSE "idle",
                       !.fn[t] = ""]
    /\ UNCHANGED runtimeFrame

\* the ping ticker: n.peer.Ping(), n.peer read without peerLock, a nil peer
\* panics; then it stands in n.stateLock.Lock()
PingQuery ==
    /\ runtime.pc["ping"] = "tick"
    /\ \/ /\ ~runtime.peer
          /\ runtime' = [runtime EXCEPT !.pc["ping"] = "panic"]
       \/ /\ runtime.peer
          /\ \E ok \in BOOLEAN :
                 runtime' = [runtime EXCEPT !.ok["ping"] = ok, !.pc["ping"] = "lock",
                                  !.stateLock = Lock(@, "ping")]
    /\ UNCHANGED runtimeFrame

\* the ping ticker: the state follows the ping, lastContact a ping that has
\* succeeded
PingStore ==
    /\ runtime.pc["ping"] = "lock"
    /\ CanLock(runtime.stateLock)
    /\ runtime' = [runtime EXCEPT
                       !.state = IF runtime.ok["ping"] THEN "connected" ELSE "disconnected",
                       !.lastContact = IF runtime.ok["ping"] THEN runtime.now ELSE @,
                       !.stateLock = Unlock(@, "ping"),
                       !.pc["ping"] = "tick",
                       !.ok["ping"] = FALSE,
                       !.tick = [kind |-> "ping", ok |-> runtime.ok["ping"],
                                 before |-> runtime.lastContact, at |-> runtime.now]]
    /\ UNCHANGED runtimeFrame

\* the metrics ticker: n.peer.Metrics(...); with an error it stands in the
\* Lock() of the error branch, otherwise in the one of the store
MetricsTickQuery ==
    /\ runtime.pc["metrics"] = "tick"
    /\ \/ /\ ~runtime.peer
          /\ runtime' = [runtime EXCEPT !.pc["metrics"] = "panic"]
       \/ /\ runtime.peer
          /\ \E ok \in BOOLEAN :
                 runtime' = [runtime EXCEPT !.ok["metrics"] = ok,
                                  !.pc["metrics"] = IF ok THEN "lock" ELSE "errLock",
                                  !.stateLock = Lock(@, "metrics")]
    /\ UNCHANGED runtimeFrame

\* the metrics ticker, err != nil: the resources are set to a busy node, and
\* the tick goes on; it stands in the second Lock()
MetricsTickError ==
    /\ runtime.pc["metrics"] = "errLock"
    /\ CanLock(runtime.stateLock)
    /\ runtime' = [runtime EXCEPT !.pc["metrics"] = "lock"]
    /\ UNCHANGED runtimeFrame

\* the metrics ticker: the resources are stored and n.lastContact = time.Now()
MetricsTickStore ==
    /\ runtime.pc["metrics"] = "lock"
    /\ CanLock(runtime.stateLock)
    /\ runtime' = [runtime EXCEPT
                       !.lastContact = runtime.now,
                       !.stateLock = Unlock(@, "metrics"),
                       !.pc["metrics"] = "tick",
                       !.ok["metrics"] = FALSE,
                       !.tick = [kind |-> "metrics", ok |-> runtime.ok["metrics"],
                                 before |-> runtime.lastContact, at |-> runtime.now]]
    /\ UNCHANGED runtimeFrame

\* the ticker's context is cancelled: the goroutine returns
TickerStops(t) ==
    /\ t \in {"ping", "metrics"}
    /\ runtime.cancelled
    /\ runtime.pc[t] = "tick"
    /\ runtime' = [runtime EXCEPT !.pc[t] = "done"]
    /\ UNCHANGED runtimeFrame

\* the files ticker: n.files() starts the goroutines of the listings
FilesTick ==
    /\ runtime.pc["files"] = "tick"
    /\ runtime' = [runtime EXCEPT !.pc["files"] = "wait",
                       !.list = [g \in Listings |-> "rlock"],
                       !.listed = [g \in Listings |-> FALSE]]
    /\ UNCHANGED runtimeFrame

\* a listing: n.peerLock.RLock()
ListRLock(g) ==
    /\ runtime.list[g] = "rlock"
    /\ CanRLock(runtime.peerLock)
    /\ runtime' = [runtime EXCEPT !.peerLock = RLock(@, g), !.list[g] = "peer"]
    /\ UNCHANGED runtimeFrame

\* a listing: without a peer it returns; otherwise n.peer.MemFSList or
\* DiskFSList, which fails or sends its files; the deferred RUnlock()
List(g) ==
    /\ runtime.list[g] = "peer"
    /\ \E ok \in BOOLEAN :
           runtime' = [runtime EXCEPT !.peerLock = RUnlock(@, g),
                            !.list[g] = "done",
                            !.listed[g] = runtime.peer /\ ok]
    /\ UNCHANGED runtimeFrame

\* n.files: wg.Wait() has returned; it stands in n.stateLock.Lock()
FilesLock ==
    /\ runtime.pc["files"] = "wait"
    /\ \A g \in Listings : runtime.list[g] = "done"
    /\ runtime' = [runtime EXCEPT !.pc["files"] = "lock",
                       !.list = [g \in Listings |-> "idle"],
                       !.stateLock = Lock(@, "files")]
    /\ UNCHANGED runtimeFrame

\* n.files: the list is stored, n.lastUpdate and n.lastContact are
\* time.Now(); then the ticker sends n.Files()
FilesStore ==
    /\ runtime.pc["files"] = "lock"
    /\ CanLock(runtime.stateLock)
    /\ runtime' = [runtime EXCEPT
                       !.lastContact = runtime.now,
                       !.stateLock = Unlock(@, "files"),
                       !.pc["files"] = "F.rlockState",
                       !.fn["files"] = "Files",
                       !.listed = [g \in Listings |-> FALSE],
                       !.tick = [kind |-> "files",
                                 ok |-> \E g \in Listings : runtime.listed[g],
                                 before |-> runtime.lastContact, at |-> runtime.now]]
    /\ UNCHANGED runtimeFrame

\* Disconnect: it stands in n.peerLock.Lock()
DisconnectLock ==
    /\ runtime.pc["disconnect"] = "idle"
    /\ runtime' = [runtime EXCEPT !.pc["disconnect"] = "lock",
                       !.peerLock = Lock(@, "disconnect")]
    /\ UNCHANGED runtimeFrame

\* Disconnect: n.cancelPing(), n.peer = nil, the deferred Unlock()
Disconnect ==
    /\ runtime.pc["disconnect"] = "lock"
    /\ CanLock(runtime.peerLock)
    /\ runtime' = [runtime EXCEPT !.peer = FALSE, !.cancelled = TRUE,
                       !.peerLock = Unlock(@, "disconnect"),
                       !.pc["disconnect"] = "done"]
    /\ UNCHANGED runtimeFrame

\* the goroutines that go through About and Files
Readers == {"caller", "files"}

NextRuntime ==
    \/ RuntimeAdvance
    \/ CallAbout
    \/ CallFiles
    \/ \E t \in Readers : FilesStateRLock(t)
    \/ \E t \in Readers : AboutPeerRLock(t)
    \/ \E t \in Readers : AboutPeer(t)
    \/ \E t \in Readers : AboutPeerRUnlock(t)
    \/ \E t \in Readers : AboutStateRLock(t)
    \/ \E t \in Readers : AboutReturn(t)
    \/ \E t \in Readers : FilesReturn(t)
    \/ PingQuery
    \/ PingStore
    \/ MetricsTickQuery
    \/ MetricsTickError
    \/ MetricsTickStore
    \/ \E t \in RuntimeThreads : TickerStops(t)
    \/ FilesTick
    \/ \E g \in Listings : ListRLock(g)
    \/ \E g \in Listings : List(g)
    \/ FilesLock
    \/ FilesStore
    \/ DisconnectLock
    \/ Disconnect

SpecRuntime == InitIdle /\ [][NextRuntime]_vars

----------------------------------------------------------------------------
(* The store's process operations *)

\* the store the latest Apply ran on, before and after it
Pre == last.pre

Post == IF last.node \in Nodes THEN fsm[last.node] ELSE NewStore

\* every process record except those under the keys ks is as before the latest Apply
SameProcessesExcept(ks) ==
    \A k \in ((DOMAIN Pre.Process) \cup (DOMAIN Post.Process)) \ ks :
        /\ k \in DOMAIN Pre.Process
        /\ k \in DOMAIN Post.Process
        /\ Post.Process[k] = Pre.Process[k]

\* C4: after any sequence of process entries the store holds a record, stored
\* under its own (id,domain), for exactly the keys that were added or renamed to
\* and not removed or renamed away since; addProcess for a taken key fails with
\* AlreadyExists and leaves the store unchanged.
C4_OneRecordPerLiveKey ==
    /\ DOMAIN fsm[1].Process = live
    /\ \A k \in DOMAIN fsm[1].Process : ProcessIDString(fsm[1].Process[k].Config) = k
    /\ (/\ last.cmd.Operation = OpAddProcess
        /\ ProcessIDString(last.cmd.Config) \in DOMAIN Pre.Process)
           => (last.err = ErrAlreadyExists /\ Post = Pre)

\* an addProcess for a taken key has been refused while another key, reached by
\* a rename, is live
C4_Witness ==
    /\ last.cmd.Operation = OpAddProcess
    /\ last.err = ErrAlreadyExists
    /\ live = PIDs
    /\ \E k \in live : fsm[1].Process[k].CreatedAt = ZeroTime

\* C5: updateProcess fails with NotFound when old_id is absent, with
\* AlreadyExists when the new key differs and is taken; in both failures and for
\* a hash-equal config the store is unchanged; otherwise the record is under the
\* new key only, with the new config and updated_at read at the update.
C5_UpdateProcess ==
    last.cmd.Operation = OpUpdateProcess =>
        LET src == last.cmd.ID
            dst == ProcessIDString(last.cmd.Config)
        IN
        IF src \notin DOMAIN Pre.Process
        THEN last.err = ErrNotFound /\ Post = Pre
        ELSE IF dst # src /\ dst \in DOMAIN Pre.Process
        THEN last.err = ErrAlreadyExists /\ Post = Pre
        ELSE IF ConfigHash(Pre.Process[src].Config) = ConfigHash(last.cmd.Config)
        THEN last.err = ErrNil /\ Post = Pre
        ELSE /\ last.err = ErrNil
             /\ DOMAIN Post.Process = ((DOMAIN Pre.Process) \ {src}) \cup {dst}
             /\ Post.Process[dst].Config = last.cmd.Config
             /\ Post.Process[dst].UpdatedAt = last.now
             /\ SameProcessesExcept({src, dst})
             /\ Post.Users = Pre.Users
             /\ Post.Policies = Pre.Policies

\* a rename has been applied while the other key was free
C5_Witness ==
    /\ last.cmd.Operation = OpUpdateProcess
    /\ last.err = ErrNil
    /\ last.cmd.ID # ProcessIDString(last.cmd.Config)
    /\ last.cmd.ID \in DOMAIN Pre.Process
    /\ Cardinality(DOMAIN Post.Process) = 1

\* the metadata of the process the latest entry names, before and after it
PreKV == Pre.Process[last.cmd.ID].Metadata.kv

PostKV == Post.Process[last.cmd.ID].Metadata.kv

\* setProcessMetadata fails with NotFound and changes nothing when the process
\* is absent; otherwise a nil value deletes exactly that key and a non-nil value
\* sets exactly that key, all other keys and the config staying as they are
SetMetadataEffect ==
    last.cmd.Operation = OpSetProcessMetadata =>
        IF last.cmd.ID \notin DOMAIN Pre.Process
        THEN last.err = ErrNotFound /\ Post = Pre
        ELSE /\ last.err = ErrNil
             /\ DOMAIN Post.Process = DOMAIN Pre.Process
             /\ SameProcessesExcept({last.cmd.ID})
             /\ Post.Process[last.cmd.ID].Config = Pre.Process[last.cmd.ID].Config
             /\ Post.Process[last.cmd.ID].CreatedAt = Pre.Process[last.cmd.ID].CreatedAt
             /\ \A k \in ((DOMAIN PreKV) \cup (DOMAIN PostKV)) \ {last.cmd.Key} :
                    /\ k \in DOMAIN PreKV
                    /\ k \in DOMAIN PostKV
                    /\ PostKV[k] = PreKV[k]
             /\ IF last.cmd.Data = NilData
                THEN last.cmd.Key \notin DOMAIN PostKV
                ELSE /\ last.cmd.Key \in DOMAIN PostKV
                     /\ PostKV[last.cmd.Key] = last.cmd.Data

\* the metadata of the process of the current run
RunKV == fsm[1].Process[run.id].Metadata.kv

\* C10 as claimed: a run of k entries with distinct keys yields no error and a
\* metadata map of exactly k more keys than the process had before the run.
C10_Claimed ==
    /\ SetMetadataEffect
    /\ run.id # "" =>
           /\ run.errs = 0
           /\ Cardinality(DOMAIN RunKV) = Cardinality(run.base) + Cardinality(run.keys)

\* C10 as amended: the map after the run has the keys it had before and the
\* keys of the run, so it has exactly k more keys when none of the k keys was
\* in the map before the run.
C10_SetProcessMetadata ==
    /\ SetMetadataEffect
    /\ run.id # "" =>
           /\ run.errs = 0
           /\ DOMAIN RunKV = run.base \cup run.keys
           /\ (run.keys \cap run.base = {}) =>
                  Cardinality(DOMAIN RunKV) = Cardinality(run.base) + Cardinality(run.keys)

\* a run of two entries with distinct new keys has been applied to a process
\* that had one key
C10_Witness ==
    /\ run.id # ""
    /\ Cardinality(run.keys) = 2
    /\ Cardinality(run.base) = 1
    /\ run.keys \cap run.base = {}
    /\ Cardinality(DOMAIN RunKV) = 3

----------------------------------------------------------------------------
(* The store's identity and policy operations *)

\* every identity except those named in ns is as before the latest Apply
SameUsersExcept(ns) ==
    \A n \in ((DOMAIN Pre.Users.Users) \cup (DOMAIN Post.Users.Users)) \ ns :
        /\ n \in DOMAIN Pre.Users.Users
        /\ n \in DOMAIN Post.Users.Users
        /\ Post.Users.Users[n] = Pre.Users.Users[n]

\* every name's policies except those of the names in ns are as before
SamePoliciesExcept(ns) ==
    \A n \in ((DOMAIN Pre.Policies.Policies) \cup (DOMAIN Post.Policies.Policies)) \ ns :
        /\ n \in DOMAIN Pre.Policies.Policies
        /\ n \in DOMAIN Post.Policies.Policies
        /\ Post.Policies.Policies[n] = Pre.Policies.Policies[n]

\* updateIdentity(name, u) with u.name = name and name present overwrites that
\* one record in place; with name absent it leaves the store unchanged
UpdateIdentityInPlace ==
    last.cmd.Operation = OpUpdateIdentity =>
        LET name == last.cmd.Name
            u == last.cmd.Identity
        IN
        /\ (name \in DOMAIN Pre.Users.Users /\ u.Name = name) =>
               /\ last.err = ErrNil
               /\ DOMAIN Post.Users.Users = DOMAIN Pre.Users.Users
               /\ Post.Users.Users[name] = u
               /\ SameUsersExcept({name})
               /\ Post.Policies = Pre.Policies
               /\ Post.Process = Pre.Process
        /\ name \notin DOMAIN Pre.Users.Users => Post = Pre

\* C7 as claimed: whenever u.name differs from name and u.name exists, the
\* update fails with AlreadyExists and the store is unchanged.
C7_Claimed ==
    /\ UpdateIdentityInPlace
    /\ (/\ last.cmd.Operation = OpUpdateIdentity
        /\ last.cmd.Identity.Name # last.cmd.Name
        /\ last.cmd.Identity.Name \in DOMAIN Pre.Users.Users)
           => (last.err = ErrAlreadyExists /\ Post = Pre)

\* C7 as amended: the rename fails with AlreadyExists only when name is
\* present; when name is absent the update returns no error, whatever u.name is.
C7_UpdateIdentity ==
    /\ UpdateIdentityInPlace
    /\ (/\ last.cmd.Operation = OpUpdateIdentity
        /\ last.cmd.Identity.Name # last.cmd.Name
        /\ last.cmd.Identity.Name \in DOMAIN Pre.Users.Users)
           => /\ Post = Pre
              /\ last.err = IF last.cmd.Name \in DOMAIN Pre.Users.Users
                            THEN ErrAlreadyExists ELSE ErrNil

\* a rename onto a taken name has been refused
C7_Witness ==
    /\ last.cmd.Operation = OpUpdateIdentity
    /\ last.cmd.Identity.Name # last.cmd.Name
    /\ last.cmd.Name \in DOMAIN Pre.Users.Users
    /\ last.cmd.Identity.Name \in DOMAIN Pre.Users.Users
    /\ last.err = ErrAlreadyExists

\* C8: right after setPolicies(i, P) the policies of i are exactly P, the
\* policies of every other name are unchanged, and no identity changes, whether
\* or not an identity named i exists.
C8_SetPoliciesReplacesAll ==
    last.cmd.Operation = OpSetPolicies =>
        /\ last.err = ErrNil
        /\ PolicyUserList(Post, last.cmd.Name) = last.cmd.Policies
        /\ last.cmd.Name \in DOMAIN Post.Policies.Policies
        /\ SamePoliciesExcept({last.cmd.Name})
        /\ Post.Users = Pre.Users
        /\ Post.Process = Pre.Process

\* the policies of $anon, which has no identity, have been replaced by a
\* different non-empty list while another name has policies
C8_Witness ==
    /\ last.cmd.Operation = OpSetPolicies
    /\ last.cmd.Name = Anon
    /\ Anon \notin DOMAIN Post.Users.Users
    /\ PolicyUserList(Pre, Anon) # <<>>
    /\ last.cmd.Policies # <<>>
    /\ PolicyUserList(Pre, Anon) # last.cmd.Policies
    /\ PolicyUserList(Post, Alice) # <<>>

\* C9: after removeIdentity(name) the store has no identity named name and no
\* policies keyed by name; every other identity and every other name's policies
\* are unchanged.
C9_RemoveIdentity ==
    last.cmd.Operation = OpRemoveIdentity =>
        /\ last.err = ErrNil
        /\ last.cmd.Name \notin DOMAIN Post.Users.Users
        /\ last.cmd.Name \notin DOMAIN Post.Policies.Policies
        /\ SameUsersExcept({last.cmd.Name})
        /\ SamePoliciesExcept({last.cmd.Name})
        /\ Post.Process = Pre.Process

\* an identity that had policies has been removed while another identity and
\* another name's policies exist
C9_Witness ==
    /\ last.cmd.Operation = OpRemoveIdentity
    /\ last.cmd.Name \in DOMAIN Pre.Users.Users
    /\ PolicyUserList(Pre, last.cmd.Name) # <<>>
    /\ Cardinality(DOMAIN Post.Users.Users) = 1
    /\ Cardinality(DOMAIN Post.Policies.Policies) = 1

----------------------------------------------------------------------------
(* Replication and snapshots *)

\* C2: two stores that have applied the same entries are in the same state,
\* timestamps included.
C2_ApplyDeterministic ==
    applied[1] = applied[2] => fsm[1] = fsm[2]

\* the store s as Restore is to leave it: nil metadata maps are empty ones
Normalized(s) ==
    [s EXCEPT !.Process =
        [k \in DOMAIN s.Process |->
            IF s.Process[k].Metadata.isnil
            THEN [s.Process[k] EXCEPT !.Metadata = EmptyMetadata]
            ELSE s.Process[k]]]

\* C3: after Restore of a snapshot taken in state S the store's processes,
\* users and policies are exactly those of S, nil metadata maps being empty.
C3_RestoreReplaces ==
    last.cmd.Operation = OpRestore => Post = Normalized(last.from)

----------------------------------------------------------------------------
(* The coordinator *)

\* C1: when store.Apply returns an error for the submitted command, the
\* coordinator's call returns that error; a call that submitted a command
\* returns nil only when the command was committed and applied without error.
C1_ApplyErrorSurfaced ==
    call.submitted =>
        /\ (call.committed /\ call.fsmErr # ErrNil) => call.ret = call.fsmErr
        /\ call.ret = ErrNil => (call.committed /\ call.fsmErr = ErrNil)

\* the name is non-empty and all its characters are of [A-Za-z0-9_-]
ValidName(name) ==
    /\ Len(name) > 0
    /\ \A i \in 1..Len(name) : name[i] \in NameChars

\* C6: AddIdentity and UpdateIdentity reject an identity with an invalid name
\* before anything is forwarded or submitted to Raft, so every identity stored
\* in the FSM has a valid name.
C6_NameValidated ==
    /\ (/\ call.op \in {"AddIdentity", "UpdateIdentity"}
        /\ ~ValidName(call.identity.Name))
           => (call.ret # ErrNil /\ ~call.forwarded /\ ~call.submitted)
    /\ \A n \in DOMAIN fsm[1].Users.Users : ValidName(fsm[1].Users.Users[n].Name)

\* C11: a mutation called while the cluster is degraded returns Degraded and
\* neither forwards a request nor submits a command to Raft.
C11_DegradedRefusesAll ==
    (call.op # "" /\ call.degraded) =>
        /\ call.ret = ErrDegraded
        /\ ~call.forwarded
        /\ ~call.submitted

\* C12: a request the forwarder dispatches goes to the API address of a node
\* that a leader observation announced as leader before.
C12_DispatchToPastLeader ==
    dispatch.op # "" => dispatch.addr \in announced

\* C13: a leader that removes itself forwards Leave only after it has
\* observed a leader other than itself: the request is not sent to its own
\* API address.
C13_LeaveAfterNewLeader ==
    (leave.transferred /\ leave.forwarded) => dispatch.addr # APIAddr(SelfAddress)

C14_JoinReplacesColliding ==
    (join.done /\ join.leader) =>
        LET colliding == {srv \in join.before :
                             srv.id = join.id \/ srv.address = join.address}
        IN
        IF \E srv \in join.before : srv.id = join.id /\ srv.address = join.address
        THEN /\ join.ret = ErrNil
             /\ join.after = join.before
             /\ join.removed = {}
             /\ ~join.addVoter
             /\ ~join.submitted
        ELSE /\ join.addVoter => join.removed = colliding
             /\ join.submitted => join.added
             /\ join.ret = ErrNil =>
                    /\ join.added
                    /\ Cardinality({srv \in join.after : srv.id = join.id}) = 1
                    /\ Cardinality({srv \in join.after : srv.address = join.address}) = 1
                    /\ Server(join.id, join.address) \in join.after

\* a Join has succeeded after two servers, one with the id and one with the
\* address, were removed
C14_Witness ==
    /\ join.done
    /\ join.leader
    /\ join.ret = ErrNil
    /\ join.added
    /\ join.submitted
    /\ Cardinality(join.removed) = 2
    /\ raftConfig = join.after

\* C16: a tick of the sentinel sends true only when the time since the last
\* contact it computed is above 10 s and it was not in emergency mode, sends
\* false only when that time is at most 10 s and it was in emergency mode, and
\* sends nothing on any other tick; the signals sent so far alternate true,
\* false, true, ... starting with true.
C16_SentinelHysteresis ==
    LET t == sentinel.tick IN
    /\ t.signal = "true" =>
           t.lastContactSince > EmergencyThreshold /\ ~t.was
    /\ t.signal = "false" =>
           t.lastContactSince <= EmergencyThreshold /\ t.was
    /\ (t.ticked /\ t.signal = "none") =>
           ((t.lastContactSince > EmergencyThreshold) <=> t.was)
    /\ \A i \in 1..Len(raftEmergencyNotifyCh) :
           raftEmergencyNotifyCh[i] = (i % 2 = 1)
    /\ sentinel.isEmergencyLeader = (Len(raftEmergencyNotifyCh) % 2 = 1)

\* the sentinel has forced leadership, released it and forced it again
C16_Witness ==
    /\ raftEmergencyNotifyCh = <<TRUE, FALSE, TRUE>>
    /\ sentinel.tick.signal = "true"
    /\ sentinel.tick.lastContactSince > EmergencyThreshold

\* C17: after the consumer has processed an update of node N, the paths mapped
\* to N are exactly the files of the update and N's last update is the
\* update's when the update is connected; no path maps to N and N has no file
\* list and no last update when it is disconnected.
C17_IndexReflectsUpdate ==
    LET u == processed.update
        mapped == {x \in DOMAIN fileid : fileid[x] = u.ID}
    IN
    (u.ID # "") =>
        IF u.State = "connected"
        THEN /\ mapped = u.Files
             /\ u.ID \in DOMAIN idupdate
             /\ idupdate[u.ID] = u.LastUpdate
        ELSE /\ mapped = {}
             /\ u.ID \notin DOMAIN idfiles
             /\ u.ID \notin DOMAIN idupdate

\* C18: a call of GetURL or GetFile that returns a result was made for a path
\* mapped to a node that has a last update at most 2 s old, is registered and
\* whose latest update was connected.
C18_LookupOnlyFresh ==
    lookup.found =>
        /\ lookup.path \in DOMAIN fileid
        /\ LET id == fileid[lookup.path] IN
           /\ id \in DOMAIN idupdate
           /\ wallClock - idupdate[id] <= FreshWindow
           /\ id \in nodes
           /\ processed.reported[id] = "connected"

\* GetFile returns a file of a node whose last update is exactly 2 s old
C18_Witness ==
    /\ lookup.found
    /\ lookup.op = "GetFile"
    /\ wallClock - idupdate[fileid[lookup.path]] = FreshWindow

\* C19: the listeners count of every proxy equals the number of subscribers
\* attached to it, whatever the interleaving of the subscribers.
C19_ListenersCountsAttached ==
    \A i \in DOMAIN proxies :
        proxies[i].listeners =
            Cardinality({s \in Subscribers : subscriber[s].p = i /\ Attached(s)})

\* C20: at most one proxy is live and at most one upstream is open at any
\* time, and a subscriber that found a proxy in server.proxy uses that one and
\* has not dialled.
C20_OneUpstream ==
    /\ Cardinality({i \in DOMAIN proxies : proxies[i].open}) <= 1
    /\ Cardinality({i \in DOMAIN proxies : proxies[i].g # "deleted"}) <= 1
    /\ \A s \in Subscribers :
           subscriber[s].found # NilProxy =>
               /\ ~subscriber[s].dialled
               /\ subscriber[s].p = subscriber[s].found

\* two subscribers are attached to one proxy: one has dialled it, the other
\* has found it
C20_Witness ==
    \E s, t \in Subscribers :
        /\ subscriber[s].dialled
        /\ subscriber[t].found = subscriber[s].p
        /\ subscriber[s].pc = "subscribed"
        /\ subscriber[t].pc = "subscribed"
        /\ proxies[subscriber[s].p].open

\* C21: the channel of a publisher whose connection has ended is removed from
\* server.channels, so that the next publisher of the resource is accepted.
C21_EndedPublisherRemoved ==
    \A p \in Publishers : (publish.pc[p] = "ended") ~> (publish.pc[p] = "closed")

\* C22: after a tick of the metrics ticker the sample of the peer is cpu 100,
\* ncpu 1, mem 0 when the query failed, and ncpu = cpu_ncpu,
\* cpu = (100 - cpu_idle) * ncpu, mem = mem_total - mem_free when it succeeded.
C22_SampleAfterTick ==
    (peer.ticked /\ peer.pc = "tick") =>
        LET r == peer.resources
            m == peer.metrics
        IN
        IF peer.err
        THEN r.cpu = 100 /\ r.ncpu = 1 /\ r.mem = 0
        ELSE /\ r.ncpu = m.cpu_ncpu
             /\ r.cpu = (100 - m.cpu_idle) * r.ncpu
             /\ m.mem_total # 0 => r.mem = m.mem_total - m.mem_free

NormalizedBlob(blob) ==
    [blob EXCEPT !.Process.v =
        [k \in DOMAIN blob.Process.v |->
            IF blob.Process.v[k].Metadata.t = "null"
            THEN [blob.Process.v[k] EXCEPT !.Metadata = JObject(EmptyMap)]
            ELSE blob.Process.v[k]]]

\* some process of the store has a nil Metadata map
HasNilMetadata(s) == \E k \in DOMAIN s.Process : s.Process[k].Metadata.isnil

RemovedAdded ==
    /\ last.node = 1
    /\ last.cmd.Operation = OpRemoveProcess
    /\ last.cmd.ID \notin DOMAIN last.from.Process
    /\ \E c \in Configs, t \in 0..MaxTime :
           /\ ProcessIDString(c) = last.cmd.ID
           /\ addProcess(last.from, CmdAddProcess(c), t) = Res(last.pre, ErrNil)

\* C25: for every store state S and every process ID that is not in S,
\* addProcess followed by removeProcess of that ID gives no error and a store
\* state equal to S.
C25_AddRemoveIsIdentity ==
    RemovedAdded => (last.err = ErrNil /\ Post = last.from)

\* a process was added to and removed from a store that holds another
\* process with metadata
C25_Witness ==
    /\ RemovedAdded
    /\ \E k \in DOMAIN last.from.Process : last.from.Process[k].Metadata.kv # EmptyMap

\* C26: SetNodeState accepts the states online, maintenance and leave, which
\* it forwards on a follower and submits on the leader; for any other state
\* it returns UnsupportedNodeState, on the leader and on a follower, without
\* forwarding anything and without submitting a command.
C26_NodeStateChecked ==
    call.op = "SetNodeState" =>
        IF call.name[1] \in {"online", "maintenance", "leave"}
        THEN /\ call.forwarded # call.submitted
             /\ call.ret # ErrUnsupportedNodeState
        ELSE /\ call.ret = ErrUnsupportedNodeState
             /\ ~call.forwarded
             /\ ~call.submitted
             /\ ~call.committed

\* a follower has refused a state that is not one of the three
C26_Witness ==
    /\ call.op = "SetNodeState"
    /\ call.name = <<"offline">>
    /\ call.ret = ErrUnsupportedNodeState
    /\ ~isRaftLeader

\* the number of events e for the peer node in the shutdown's events
EventCount(e, node) ==
    Cardinality({i \in 1..Len(shutdown.events) : shutdown.events[i] = Event(e, node)})

\* the place of an event in the order of a shutdown
EventRank(ev) ==
    CASE ev.e = "close" -> 0
      [] ev.e = "stop" -> 1
      [] ev.e = "transport" -> 2
      [] ev.e = "raft" -> 3
      [] ev.e = "store" -> 4

\* C27: however many goroutines call Shutdown and however often, the
\* shutdown channel is closed at most once, every peer is stopped at most
\* once, and Raft is shut down and its log store closed at most once, in the
\* order: channel closed, peers stopped, Raft shut down, log store closed; once
\* a call has returned all of this has been done exactly once for the channel
\* and Raft, and every call returns nil.
C27_ShutdownOnce ==
    /\ \A e \in {"close", "transport", "raft", "store"} : EventCount(e, "") <= 1
    /\ \A p \in Peers : EventCount("stop", p) <= 1
    /\ \A i, j \in 1..Len(shutdown.events) :
           i < j => EventRank(shutdown.events[i]) < EventRank(shutdown.events[j])
                    \/ (shutdown.events[i].e = "stop" /\ shutdown.events[j].e = "stop")
    /\ \A c \in Callers :
           shutdown.pc[c] = "done" =>
               /\ shutdown.ret[c] = "nil"
               /\ \A e \in {"close", "transport", "raft", "store"} : EventCount(e, "") = 1
               /\ shutdown.nodes \subseteq shutdown.joined
               /\ \A p \in shutdown.joined \ shutdown.nodes : EventCount("stop", p) = 1

\* both goroutines have returned from Shutdown, one from a later call, and two
\* peers were stopped
C27_Witness ==
    /\ \A c \in Callers : shutdown.pc[c] = "done"
    /\ \A p \in Peers : EventCount("stop", p) = 1

\* C28: once the manager is constructed, no identity of im.identities and no
\* user written to the users file has the superuser's name.
C28_SuperuserUnlisted ==
    iam.built =>
        /\ iam.im.root.user.Name \notin DOMAIN iam.im.identities
        /\ \A u \in iam.im.file : u.Name # iam.im.root.user.Name

\* the identities that exist: those of im.identities and the superuser
ExistingIdentities ==
    {iam.im.identities[n] : n \in DOMAIN iam.im.identities} \cup {iam.im.root}

\* the existing identities with an Auth0 login
Auth0Identities == {i \in ExistingIdentities : i.user.Auth0Enable}

\* the latest call was a Create or Update with an Auth0 subject that another
\* identity had
TakesUsedSubject ==
    /\ iam.call.op \in {"Create", "Update"}
    /\ iam.call.user.Auth0Enable
    /\ iam.call.user.Auth0User \in DOMAIN iam.call.pre.auth0UserIdentityMap
    /\ iam.call.op = "Update" =>
           iam.call.pre.auth0UserIdentityMap[iam.call.user.Auth0User] # iam.call.name

\* C29: after construction and any calls of Create, Update and Remove, no two
\* existing identities have the same Auth0 subject, a Create or Update that
\* would give an identity a subject another identity has fails, and the
\* subject-to-name map has exactly the subjects of the existing Auth0-enabled
\* identities, each mapped to the name of its identity, under which
\* GetVerifierByAuth0 finds an identity.
C29_SubjectMap ==
    iam.built =>
        /\ \A i, j \in Auth0Identities : i.user.Auth0User = j.user.Auth0User => i = j
        /\ DOMAIN iam.im.auth0UserIdentityMap = {i.user.Auth0User : i \in Auth0Identities}
        /\ \A i \in Auth0Identities :
               /\ iam.im.auth0UserIdentityMap[i.user.Auth0User] = i.user.Name
               /\ GetVerifierByAuth0(iam.im, i.user.Auth0User).user.Name = i.user.Name
        /\ TakesUsedSubject => iam.call.err # ErrNil

\* an Update that would have given an identity the subject of another one
\* has failed, two identities with Auth0 logins existing
C29_Witness ==
    /\ iam.built
    /\ TakesUsedSubject
    /\ iam.call.op = "Update"
    /\ iam.call.err = ErrAuth0Taken
    /\ Cardinality(Auth0Identities) >= 2

\* C30: the tenants of the manager are those of the (domain, audience) pairs
\* of the existing Auth0-enabled identities, the superuser included, each
\* identity referring to the tenant of its pair, which is not cancelled.
C30_TenantLifecycle ==
    iam.built =>
        /\ DOMAIN iam.im.tenants = {key(i.user.Auth0Tenant) : i \in Auth0Identities}
        /\ \A i \in Auth0Identities :
               /\ key(i.user.Auth0Tenant) \in DOMAIN iam.im.tenants
                    => i.tenant = iam.im.tenants[key(i.user.Auth0Tenant)]
               /\ ~iam.im.objects[i.tenant].cancelled
               /\ iam.im.objects[i.tenant].domain = i.user.Auth0Tenant.Domain
               /\ iam.im.objects[i.tenant].audience = i.user.Auth0Tenant.Audience

\* a goroutine of limiter.limit is running and its context is not cancelled
Throttling ==
    \E i \in DOMAIN limiter.loops :
        limiter.loops[i].pc \notin {"done", "panic"} /\ ~limiter.loops[i].cancelled

\* C31: limiting is on exactly when the latest call of Limit had the argument
\* true: then a throttling loop runs, otherwise none runs and, in soft mode,
\* collect does not start OnLimit.
C31_LimitToggles ==
    limiter.built =>
        /\ limiter.want <=> Throttling
        /\ (limiter.call.op = "collect" /\ limiter.mode = LimitModeSoft /\ ~limiter.want)
               => ~limiter.call.onLimit

\* C40: no goroutine of limiter.limit calls Resume or Suspend on the l.proc
\* that Stop has set to nil, and once every throttling loop has returned the
\* supervised process is not suspended.
C40_ThrottlingEndsClean ==
    /\ limiter.cleared => Alive
    /\ (limiter.loops # <<>> /\ \A i \in DOMAIN limiter.loops : limiter.loops[i].pc = "done")
           => ~limiter.suspended

\* C32: a handleSubscribe that has returned does not hold server.lock,
\* whichever way it returned: without a URL of the resource, with a URL that
\* does not parse, with a failed dial, or after its subscription has ended.
C32_LockReleased ==
    \A s \in Subscribers : subscriber[s].pc = "done" => srtLock # s

\* C33: the proxy to which a subscriber adds itself, the one it found in
\* server.proxy or the one it has dialled, has an upstream that no detaching
\* subscriber has closed: it is open unless it has ended by itself.
C33_JoinsOpenUpstream ==
    [][\A s \in Subscribers :
           (subscriber[s].pc = "incWrite" /\ subscriber'[s].pc = "subscribed")
               => (proxies[subscriber[s].p].open \/ proxies[subscriber[s].p].ended)]_vars

\* the goroutines that h waits for: those standing in Lock() when h stands
\* in an RLock() of the lock, the holders of read locks when h stands in
\* Lock()
WaitsFor(h) ==
    LET inPeerRLock == \/ (h \in RuntimeThreads /\ runtime.pc[h] = "A.rlockPeer")
                       \/ (h \in Listings /\ runtime.list[h] = "rlock")
        inStateRLock == h \in RuntimeThreads /\ runtime.pc[h] \in {"F.rlockState", "A.rlockState"}
        readers(l) == {r \in Holders : l.readers[r] > 0}
    IN  (IF inPeerRLock THEN runtime.peerLock.waiting ELSE {})
          \cup (IF inStateRLock THEN runtime.stateLock.waiting ELSE {})
          \cup (IF h \in runtime.peerLock.waiting THEN readers(runtime.peerLock) ELSE {})
          \cup (IF h \in runtime.stateLock.waiting THEN readers(runtime.stateLock) ELSE {})

RECURSIVE WaitsChain(_, _)
\* the goroutines reached from those of S in at most n steps of WaitsFor
WaitsChain(S, n) ==
    IF n = 0 THEN S
    ELSE WaitsChain(S \cup UNION {WaitsFor(h) : h \in S}, n - 1)

\* a goroutine waits for itself: none of the cycle ever goes on
Deadlocked ==
    \E h \in Holders : h \in WaitsChain(WaitsFor(h), Cardinality(Holders))

\* C34: no goroutine of a peer node asks for peerLock or once more for
\* stateLock while it holds stateLock, none queries the peer with a lock of
\* the node held, and no goroutines wait for each other's locks.
C34_LockDiscipline ==
    /\ \A t \in Readers :
           runtime.pc[t] \in {"A.rlockPeer", "A.rlockState"}
               => runtime.stateLock.readers[t] = 0
    /\ \A g \in Listings :
           (runtime.list[g] = "peer" /\ runtime.peer) => runtime.peerLock.readers[g] = 0
    /\ ~Deadlocked

\* C35: a tick whose query of the peer has failed leaves lastContact as it
\* was; a ping that has failed leaves the node disconnected, one that has
\* succeeded leaves it connected with lastContact the time of the tick.
C35_ContactOnSuccess ==
    /\ (runtime.tick.kind # "" /\ ~runtime.tick.ok)
           => runtime.lastContact = runtime.tick.before
    /\ (runtime.tick.kind = "ping" /\ ~runtime.tick.ok) => runtime.state = "disconnected"
    /\ (runtime.tick.kind = "ping" /\ runtime.tick.ok)
           => (runtime.state = "connected" /\ runtime.lastContact = runtime.tick.at)

\* C36: an updateProcess that has replaced the config of a process, under
\* the same id or under a new one, leaves the record's created_at and
\* metadata as they were.
C36_UpdateKeepsCreatedAt ==
    (/\ last.cmd.Operation = OpUpdateProcess
     /\ last.err = ErrNil
     /\ last.cmd.ID \in DOMAIN Pre.Process
     /\ ConfigHash(Pre.Process[last.cmd.ID].Config) # ConfigHash(last.cmd.Config))
        => LET dst == ProcessIDString(last.cmd.Config) IN
           /\ dst \in DOMAIN Post.Process
           /\ Post.Process[dst].CreatedAt = Pre.Process[last.cmd.ID].CreatedAt
           /\ Post.Process[dst].Metadata = Pre.Process[last.cmd.ID].Metadata

\* C37: an updateIdentity(name, u) of an existing identity that has returned
\* no error, u.name differing from name, leaves no record under name, as
\* many identities as before, and every other identity unchanged.
C37_RenameMovesIdentity ==
    (/\ last.cmd.Operation = OpUpdateIdentity
     /\ last.err = ErrNil
     /\ last.cmd.Identity.Name # last.cmd.Name
     /\ last.cmd.Name \in DOMAIN Pre.Users.Users)
        => /\ last.cmd.Name \notin DOMAIN Post.Users.Users
           /\ Cardinality(DOMAIN Post.Users.Users) = Cardinality(DOMAIN Pre.Users.Users)
           /\ SameUsersExcept({last.cmd.Name, last.cmd.Identity.Name})

\* C38: every call of Leave returns: from each of its waits, the one for a
\* new leader after the transfer of leadership and the one for the removal
\* from the configuration, it goes on after a bounded time.
C38_LeaveReturns ==
    (leave.pc \notin {"idle", "done"}) ~> (leave.pc = "done")

\* what the callers of the manager can observe of it: the identities with
\* their data, validity and tenant, the identity of each Auth0 subject, and
\* the identities that refer to each tenant of the manager
ManagerView(m) ==
    [identities |-> [n \in DOMAIN m.identities |->
                        [user |-> m.identities[n].user,
                         valid |-> m.identities[n].valid,
                         tenant |-> IF m.identities[n].tenant = NilTenant
                                    THEN <<"", "", TRUE>>
                                    ELSE <<m.objects[m.identities[n].tenant].domain,
                                           m.objects[m.identities[n].tenant].audience,
                                           m.objects[m.identities[n].tenant].cancelled>>]],
     subjects |-> m.auth0UserIdentityMap,
     tenants |-> [k \in DOMAIN m.tenants |->
                     {n \in DOMAIN m.identities : m.identities[n].tenant = m.tenants[k]}]]

\* C39: after an Update that has returned an error the manager is, for its
\* callers, as it was before the call.
C39_FailedUpdateKeepsState ==
    (iam.built /\ iam.call.op = "Update" /\ iam.call.err # ErrNil)
        => ManagerView(iam.im) = ManagerView(iam.call.pre)

====
